---- MODULE Spec2Model ----
(***************************************************************************)
(* DiskWatcher: the catalog store (db/events.py, db/jobs.py) and the       *)
(* watcher supervisor (core/manager.py, core/watcher.py).                  *)
(*                                                                         *)
(* Spec         : the catalog under log_event calls of every kind, each   *)
(*                write statement able to fail.                            *)
(* SpecFiles    : one path, timestamps in any order, every stat outcome.   *)
(* SpecUsage    : one volume around the capacity refresh thresholds.       *)
(* SpecIdentity : one volume, every mount metadata dictionary.             *)
(* SpecSup      : the main thread and the discovery thread call the        *)
(*                manager while the watcher threads run.                   *)
(* SpecSeq      : one thread alone calls the manager.                      *)
(* SpecScan     : run_initial_scans over two watched directories.          *)
(* SpecLive     : one started watcher handles file notifications.          *)
(* SpecStale    : `diskwatcher run` starts on a catalog that other         *)
(*                processes wrote jobs to.                                 *)
(* SpecDiscovery: scan_once calls of the auto-discovery thread while disks *)
(*                are mounted and unmounted.                               *)
(* SpecStream   : `diskwatcher stream` polls while watchers append.        *)
(* SpecShutdown : stop_all on two watchers with a raising join or UPDATE.  *)
(* SpecConn     : three threads write on the shared connection.            *)
(* SpecRetry    : _execute_with_retry with failing statements.             *)
(* SpecMount    : the mount metadata cache of one DiskWatcher.             *)
(* SpecShared   : SpecDiscovery with a main thread that adds and removes.  *)
(* SpecLoop     : the loop of the auto-discovery thread and stop_all.      *)
(* SpecJobs     : JobHandle calls on a jobs table with its time columns.   *)
(* SpecLocks    : three threads and the two locks they share.              *)
(* SpecDeny     : events on paths of the file deny-set.                    *)
(***************************************************************************)
EXTENDS Integers, Sequences, FiniteSets, TLC

(***************************************************************************)
(* Values                                                                  *)
(***************************************************************************)
\* SQL NULL / Python None in a text column or a dictionary value.
NULL == "NULL"
\* SQL NULL in a timestamp or integer column (timestamps are seconds >= 0).
NoTime == 0 - 1

\* Bounds of the model.
MaxEvents == 3
MaxTick == 2
TickSeconds == 150

\* Program constants.
VOLUME_USAGE_REFRESH_SECONDS == 300
VOLUME_USAGE_REFRESH_EVENT_THRESHOLD == 100

EventTypes == {"created", "modified", "deleted", "existing"}
LiveEventTypes == {"created", "modified", "deleted"}
VolumeIds == {"vol-1", "vol-2"}
Timestamps == {k * TickSeconds : k \in 0..MaxTick}

\* The watcher root that is passed as `directory` for a volume.
DirectoryOf(v) == IF v = "vol-1" THEN "/mnt/one" ELSE "/mnt/two"

FILE_IGNORE_SUFFIXES == {".lock", ".tmp", ".swp", ".swx", "~"}
FILE_IGNORE_NAMES == {[stem |-> ".DS_Store", ext |-> ""], [stem |-> "Thumbs", ext |-> ".db"]}

\* Outcomes of Path.stat() / Path.is_file() on the event's path.
StatAbsent == [kind |-> "absent", size |-> 0, mtime |-> 0, ctime |-> 0]
StatNotFile == [kind |-> "notfile", size |-> 0, mtime |-> 0, ctime |-> 0]
StatResults ==
    {StatAbsent, StatNotFile,
     [kind |-> "file", size |-> 2, mtime |-> 10, ctime |-> 10],
     [kind |-> "file", size |-> 3, mtime |-> 20, ctime |-> 20]}

\* Mount metadata dictionaries handed to log_event.  A key that is absent
\* from the dictionary is absent from the record; None values are NULL.
EmptyMeta == [k \in {} |-> NULL]
MetaInputs ==
    {EmptyMeta,
     [device |-> "/dev/sda1"],
     [device |-> "/dev/sdb1", mount_point |-> "/mnt/usb", uuid |-> "U-1",
      label |-> NULL, volume_id |-> "uuid=u-1",
      lsblk |-> [SERIAL |-> "S1", MODEL |-> NULL]],
     [mount_point |-> "/media/x", uuid |-> "U-2", label |-> "BACKUP",
      volume_id |-> "vol-1", lsblk |-> [SERIAL |-> "S2"]]}

\* Where a write statement of log_event gives up (an OperationalError that
\* _execute_with_retry re-raises): nowhere, at the INSERT INTO events, at
\* the first statement of the volume derivation, at its usage UPDATE, or
\* at the file statement.
Faults == {"none", "insert", "volume", "usage", "file"}

VARIABLES
    events,     \* the events table, in rowid order
    volumes,    \* the volumes table: volume_id -> row
    files,      \* the files table: <<volume_id, path>> -> row
    last,       \* the last log_event call: its arguments and its outcome
    threads,    \* DiskWatcherManager.threads: the watcher set, in order
    watchers,   \* every DiskWatcherThread constructed so far
    jobs,       \* the jobs table, job_id = position
    running,    \* DiskWatcherManager._running
    caller,     \* per calling thread: the manager method it is inside
    jobcall,    \* the last statement executed on the jobs table
    writers,    \* who wrote a job row after its creation: <<job_id, task>>
    discovery,  \* DiskWatcherManager._auto_discovery: the discovery thread
    scans,      \* the run_initial_scans call of the main thread
    scanner,    \* per target of that call: its archive_existing_files run
    notified,   \* the last file notification handled by a watcher
    startup,    \* the process table and the position of `diskwatcher run`
    sync,       \* the _AutoDiscoveryThread object and its scan_once call
    reader,     \* a `diskwatcher stream` process: its cursor, what it echoed
    conn,       \* the shared connection: its lock, who is inside a write
    retry,      \* one _execute_with_retry call: attempts, sleeps, outcome
    mount,      \* one DiskWatcher: its cached mount metadata and schedule
    table,      \* the jobs table with its time columns, and the last call on it
    locks       \* who holds conn_lock and _threads_lock, and what each thread has yet to do

catalogVars == <<events, volumes, files, last>>
supervisorVars == <<threads, watchers, jobs, running, caller, jobcall, writers, discovery>>
scanVars == <<scans, scanner>>
liveVars == <<notified>>
outerVars == <<startup, sync, reader, conn, retry, mount, table, locks>>
exceptStartup == <<sync, reader, conn, retry, mount, table, locks>>
exceptSync == <<startup, reader, conn, retry, mount, table, locks>>
exceptReader == <<startup, sync, conn, retry, mount, table, locks>>
exceptConn == <<startup, sync, reader, retry, mount, table, locks>>
exceptRetry == <<startup, sync, reader, conn, mount, table, locks>>
exceptMount == <<startup, sync, reader, conn, retry, table, locks>>
exceptTable == <<startup, sync, reader, conn, retry, mount, locks>>
exceptLocks == <<startup, sync, reader, conn, retry, mount, table>>
vars == <<events, volumes, files, last, threads, watchers, jobs, running,
          caller, jobcall, writers, discovery, scans, scanner, notified, startup,
          sync, reader, conn, retry, mount, table, locks>>

(***************************************************************************)
(* db/events.py                                                            *)
(***************************************************************************)
\* dict.get(key): None when the key is missing.
Get(d, k) == IF k \in DOMAIN d THEN d[k] ELSE NULL

\* Python truthiness of a text value: None and "" are falsy.
Truthy(x) == x # NULL /\ x # ""

\* mount_metadata.get("lsblk") or {}
LsblkPayload(meta) == IF "lsblk" \in DOMAIN meta THEN meta["lsblk"] ELSE EmptyMeta

ParseIso(raw) == IF raw = NoTime THEN 0 ELSE raw

NewVolumeRow(directory) ==
    [directory |-> directory,
     event_count |-> 0, created_count |-> 0, modified_count |-> 0,
     deleted_count |-> 0, last_event_timestamp |-> NoTime,
     events_since_refresh |-> 0,
     usage_total_bytes |-> NoTime, usage_refreshed_at |-> NoTime,
     mount_device |-> NULL, mount_point |-> NULL, mount_uuid |-> NULL,
     mount_label |-> NULL, mount_volume_id |-> NULL,
     lsblk_serial |-> NULL, lsblk_model |-> NULL, lsblk_json |-> {},
     identity_refreshed_at |-> NoTime]

\* INSERT INTO volumes ... ON CONFLICT(volume_id) DO UPDATE SET directory
UpsertVolume(vols, volume_id, directory) ==
    IF volume_id \in DOMAIN vols
    THEN [vols EXCEPT ![volume_id].directory = directory]
    ELSE [v \in DOMAIN vols \cup {volume_id} |->
            IF v = volume_id THEN NewVolumeRow(directory) ELSE vols[v]]

\* UPDATE volumes SET event_count = event_count + 1, ...
BumpCounters(row, event_type, event_timestamp) ==
    [row EXCEPT
        !.event_count = @ + 1,
        !.created_count = @ + (IF event_type = "created" THEN 1 ELSE 0),
        !.modified_count = @ + (IF event_type = "modified" THEN 1 ELSE 0),
        !.deleted_count = @ + (IF event_type = "deleted" THEN 1 ELSE 0),
        !.last_event_timestamp = event_timestamp,
        !.events_since_refresh = @ + 1]

\* A refresh rule that waits until the thresholds are exceeded.
ShouldRefreshStrict(row, event_timestamp) ==
    \/ row.usage_refreshed_at = NoTime
    \/ ParseIso(event_timestamp) - ParseIso(row.usage_refreshed_at)
          > VOLUME_USAGE_REFRESH_SECONDS
    \/ row.events_since_refresh > VOLUME_USAGE_REFRESH_EVENT_THRESHOLD

ShouldRefresh(row, event_timestamp) ==
    \/ row.usage_refreshed_at = NoTime
    \/ ParseIso(event_timestamp) - ParseIso(row.usage_refreshed_at)
          >= VOLUME_USAGE_REFRESH_SECONDS
    \/ row.events_since_refresh >= VOLUME_USAGE_REFRESH_EVENT_THRESHOLD

MaybeRefreshVolumeUsage(row, event_timestamp, usage) ==
    IF ~ShouldRefresh(row, event_timestamp) THEN row
    ELSE IF usage = NoTime THEN row
    ELSE [row EXCEPT
            !.usage_total_bytes = usage,
            !.usage_refreshed_at = event_timestamp,
            !.events_since_refresh = 0]

\* The `updates` dictionary of _maybe_persist_volume_identity, as the set
\* of <<column, value>> pairs it holds.
IdentityUpdates(volume_id, directory, meta) ==
    LET device == Get(meta, "device")
        mount_point == IF Truthy(Get(meta, "mount_point"))
                       THEN Get(meta, "mount_point") ELSE directory
        uuid == Get(meta, "uuid")
        label == Get(meta, "label")
        vol_hint == Get(meta, "volume_id")
        lsblk == LsblkPayload(meta)
    IN  (IF Truthy(device) THEN {<<"mount_device", device>>} ELSE {})
        \cup (IF Truthy(mount_point) THEN {<<"mount_point", mount_point>>} ELSE {})
        \cup (IF Truthy(uuid) THEN {<<"mount_uuid", uuid>>} ELSE {})
        \cup (IF Truthy(label) THEN {<<"mount_label", label>>} ELSE {})
        \cup (IF Truthy(vol_hint) /\ vol_hint # volume_id
              THEN {<<"mount_volume_id", vol_hint>>} ELSE {})
        \cup (IF DOMAIN lsblk # {}
              THEN {<<"lsblk_serial", Get(lsblk, "SERIAL")>> : x \in
                        {y \in {1} : Truthy(Get(lsblk, "SERIAL"))}}
                   \cup {<<"lsblk_model", Get(lsblk, "MODEL")>> : x \in
                        {y \in {1} : Truthy(Get(lsblk, "MODEL"))}}
              ELSE {})

Updated(ups, column, old) ==
    IF \E u \in ups : u[1] = column
    THEN (CHOOSE u \in ups : u[1] = column)[2]
    ELSE old

MaybePersistVolumeIdentity(row, volume_id, directory, event_timestamp, meta) ==
    LET ups == IdentityUpdates(volume_id, directory, meta)
        lsblk == LsblkPayload(meta)
    IN  IF ups = {} /\ DOMAIN lsblk = {} THEN row
        ELSE [row EXCEPT
                !.mount_device = Updated(ups, "mount_device", @),
                !.mount_point = Updated(ups, "mount_point", @),
                !.mount_uuid = Updated(ups, "mount_uuid", @),
                !.mount_label = Updated(ups, "mount_label", @),
                !.mount_volume_id = Updated(ups, "mount_volume_id", @),
                !.lsblk_serial = Updated(ups, "lsblk_serial", @),
                !.lsblk_model = Updated(ups, "lsblk_model", @),
                !.lsblk_json = IF DOMAIN lsblk # {} THEN {lsblk} ELSE @,
                !.identity_refreshed_at = event_timestamp]

UpdateVolumeMetadata(vols, volume_id, directory, event_type, event_timestamp, meta, usage) ==
    LET upserted == UpsertVolume(vols, volume_id, directory)
        counted == BumpCounters(upserted[volume_id], event_type, event_timestamp)
        refreshed == MaybeRefreshVolumeUsage(counted, event_timestamp, usage)
        row == IF DOMAIN meta # {}
               THEN MaybePersistVolumeIdentity(refreshed, volume_id, directory,
                                               event_timestamp, meta)
               ELSE refreshed
    IN  [upserted EXCEPT ![volume_id] = row]

IgnoredName(path) ==
    \/ path \in FILE_IGNORE_NAMES
    \/ path.ext \in FILE_IGNORE_SUFFIXES

\* A file derivation whose tombstone keeps the last known size and mtime.
UpdateFileMetadataKeepingSize(fs, event_type, path, directory, volume_id, event_timestamp, st) ==
    LET key == <<volume_id, path>>
    IN  IF IgnoredName(path) THEN fs
        ELSE IF event_type = "deleted"
        THEN IF key \in DOMAIN fs
             THEN [fs EXCEPT ![key] =
                     [@ EXCEPT !.is_deleted = 1,
                               !.last_event_timestamp = event_timestamp,
                               !.last_event_type = event_type]]
             ELSE fs
        ELSE IF st.kind # "file" THEN fs
        ELSE [k \in DOMAIN fs \cup {key} |->
                IF k = key
                THEN [directory |-> directory, size_bytes |-> st.size,
                      modified_time |-> st.mtime, created_time |-> st.ctime,
                      last_event_timestamp |-> event_timestamp,
                      last_event_type |-> event_type, is_deleted |-> 0]
                ELSE fs[k]]

UpdateFileMetadata(fs, event_type, path, directory, volume_id, event_timestamp, st) ==
    LET key == <<volume_id, path>>
    IN  IF IgnoredName(path) THEN fs
        ELSE IF event_type = "deleted"
        THEN IF key \in DOMAIN fs
             THEN [fs EXCEPT ![key] =
                     [@ EXCEPT !.is_deleted = 1,
                               !.size_bytes = NoTime,
                               !.modified_time = NoTime,
                               !.last_event_timestamp = event_timestamp,
                               !.last_event_type = event_type]]
             ELSE fs
        ELSE IF st.kind # "file" THEN fs
        ELSE LET row == [directory |-> directory,
                         size_bytes |-> st.size,
                         modified_time |-> st.mtime,
                         created_time |-> IF key \in DOMAIN fs
                                             /\ fs[key].created_time # NoTime
                                          THEN fs[key].created_time
                                          ELSE st.ctime,
                         last_event_timestamp |-> event_timestamp,
                         last_event_type |-> event_type,
                         is_deleted |-> 0]
             IN  [k \in DOMAIN fs \cup {key} |-> IF k = key THEN row ELSE fs[k]]

\* The record kept of a log_event call: its arguments, what the
\* environment answered, whether a derivation's exception was logged and
\* swallowed, and whether the caller saw an exception.
Call(event_type, path, volume_id, timestamp, meta, st, usage, fault, inserted, swallowed, raised) ==
    [op |-> "log_event", event_type |-> event_type, path |-> path,
     volume_id |-> volume_id, timestamp |-> timestamp, meta |-> meta,
     st |-> st, usage |-> usage, fault |-> fault,
     inserted |-> inserted, swallowed |-> swallowed, raised |-> raised]

\* Does _maybe_refresh_volume_usage reach its UPDATE for this event?
UsageStatementRuns(vols, volume_id, directory, event_type, timestamp, usage) ==
    LET upserted == UpsertVolume(vols, volume_id, directory)
        counted == BumpCounters(upserted[volume_id], event_type, timestamp)
    IN  ShouldRefresh(counted, timestamp) /\ usage # NoTime

\* Does _update_file_metadata reach a write statement for this event?
FileStatementRuns(event_type, path, st) ==
    /\ ~IgnoredName(path)
    /\ event_type = "deleted" \/ st.kind = "file"

\* _update_volume_metadata as log_event runs it: an exception raised by its
\* first statement leaves the table alone, one raised by the usage UPDATE
\* keeps the counters that were already written.
VolumeDerivation(vols, volume_id, directory, event_type, timestamp, meta, usage, fault) ==
    IF fault = "volume" THEN vols
    ELSE IF fault = "usage"
            /\ UsageStatementRuns(vols, volume_id, directory, event_type, timestamp, usage)
    THEN LET upserted == UpsertVolume(vols, volume_id, directory)
         IN  [upserted EXCEPT ![volume_id] = BumpCounters(@, event_type, timestamp)]
    ELSE UpdateVolumeMetadata(vols, volume_id, directory, event_type,
                              timestamp, meta, usage)

\* _update_file_metadata as log_event runs it.
FileDerivation(fs, event_type, path, directory, volume_id, timestamp, st, fault) ==
    IF fault = "file" /\ FileStatementRuns(event_type, path, st) THEN fs
    ELSE UpdateFileMetadata(fs, event_type, path, directory, volume_id, timestamp, st)

\* Was an exception raised inside one of the two try blocks?
Swallowed(vols, event_type, path, volume_id, directory, timestamp, st, usage, fault) ==
    \/ fault = "volume"
    \/ fault = "usage"
         /\ UsageStatementRuns(vols, volume_id, directory, event_type, timestamp, usage)
    \/ fault = "file" /\ FileStatementRuns(event_type, path, st)

\* log_event(conn, event_type, path, directory, volume_id, timestamp,
\* mount_metadata): the INSERT, then the two derivations, each inside its
\* own try/except that logs and swallows.
LogEventRows(event_type, path, volume_id, timestamp, meta, st, usage, fault) ==
    LET directory == DirectoryOf(volume_id)
       IN  IF fault = "insert"
           THEN /\ UNCHANGED <<events, volumes, files>>
                /\ last' = Call(event_type, path, volume_id, timestamp, meta, st,
                                usage, fault, FALSE, FALSE, TRUE)
           ELSE /\ events' = Append(events,
                        [timestamp |-> timestamp, event_type |-> event_type,
                         path |-> path, volume_id |-> volume_id])
                /\ volumes' = VolumeDerivation(volumes, volume_id, directory,
                                  event_type, timestamp, meta, usage, fault)
                /\ files' = FileDerivation(files, event_type, path, directory,
                                volume_id, timestamp, st, fault)
                /\ last' = Call(event_type, path, volume_id, timestamp, meta, st,
                                usage, fault, TRUE,
                                Swallowed(volumes, event_type, path, volume_id,
                                          directory, timestamp, st, usage, fault),
                                FALSE)

\* The same call where only the catalog is at stake, up to `limit` events.
LogEvent(event_type, path, volume_id, timestamp, meta, st, usage, fault, limit) ==
    /\ Len(events) < limit
    /\ LogEventRows(event_type, path, volume_id, timestamp, meta, st, usage, fault)
    /\ UNCHANGED supervisorVars

(***************************************************************************)
(* db/jobs.py                                                              *)
(***************************************************************************)
None == 0 - 1

\* _iso_now(): the catalog only distinguishes a stamp from NULL.
IsoNow == "now"

\* progress_json: NULL, or the status and the counts of a scan_stats
\* dictionary (None for a key it lacks).
NoProgress == [status |-> NULL, files_scanned |-> None, directories_seen |-> None]

\* str(os.getpid()) and socket.gethostname() in the supervisor process.
Getpid == "101"
Hostname == "here"

\* The processes that can have written to the catalog.
Pids == {"101", "102"}
Hosts == {"here", "there"}

\* create_job run by the process that stores pid and host in the row,
\* with the two columns exchanged.
CreateJobSwapped(js, job_type, path, status, pid, host) ==
    Append(js, [job_type |-> job_type, path |-> path, status |-> status,
                error_message |-> NULL, completed_at |-> NULL,
                progress |-> NoProgress, owner_pid |-> host, owner_host |-> pid])

\* create_job run by process `pid` on `host` (owner_pid, owner_host left
\* to their defaults).
CreateJobAs(js, job_type, path, status, pid, host) ==
    Append(js, [job_type |-> job_type, path |-> path, status |-> status,
                error_message |-> NULL, completed_at |-> NULL,
                progress |-> NoProgress, owner_pid |-> pid, owner_host |-> host])

CreateJob(js, job_type, path, status) ==
    CreateJobAs(js, job_type, path, status, Getpid, Hostname)

UpdateJob(js, job_id, status, error, completed) ==
    [js EXCEPT ![job_id] =
        [@ EXCEPT !.status = IF status # NULL THEN status ELSE @,
                  !.error_message = IF error # NULL THEN error ELSE @,
                  !.completed_at = IF completed THEN IsoNow ELSE @]]

CompleteJob(js, job_id, status) == UpdateJob(js, job_id, status, NULL, TRUE)

FailJob(js, job_id, error) == UpdateJob(js, job_id, "failed", error, TRUE)

\* touch_job(conn, job_id, progress) and every other update_job that
\* hands a progress dictionary: progress_json takes it.
TouchJob(js, job_id, progress) == [js EXCEPT ![job_id].progress = progress]

JobCall(op, job_id) == [op |-> op, job_id |-> job_id]

\* The tasks that hold a JobHandle: a thread that calls the manager, a
\* watcher thread, a worker process of the pool, another process.
CallerTask(c) == [kind |-> c, n |-> 0]
WatcherTask(w) == [kind |-> "watcher", n |-> w]
WorkerTask(k) == [kind |-> "worker", n |-> k]
ProcessTask(owner) ==
    [kind |-> owner.pid, n |-> IF owner.host = Hostname THEN 0 ELSE 1]

\* update_job / touch_job issued by `task` on row job_id.
Wrote(ws, job_id, task) == ws \cup {<<job_id, task>>}

(***************************************************************************)
(* core/watcher.py: DiskWatcherThread                                      *)
(***************************************************************************)
MaxWatchers == 2
MaxJobs == 2

Directories == {"/mnt/one"}
Spellings == {"direct", "link"}

\* A path as a caller writes it: the directory it denotes and whether it
\* is written directly or through a symbolic link.
RawPaths == [target : Directories, via : Spellings]

\* The paths written without a link: what the command line passes after
\* resolving them and what the discovery thread collects.
DirectPaths == {raw \in RawPaths : raw.via = "direct"}

\* Path.resolve(): the canonical spelling of the directory.
Resolve(raw) == [target |-> raw.target, via |-> "direct"]

NoPath == [target |-> NULL, via |-> "direct"]

\* What the host answers when DiskWatcher.start builds and starts its
\* observers: the inotify observer starts, or raises OSError with errno
\* ENOSPC or with another errno; after ENOSPC the polling observer starts
\* or raises in its turn.
NoHost == [kernel |-> NULL, polling |-> NULL]
ObserverOutcomes ==
    {[kernel |-> "ok", polling |-> NULL],
     [kernel |-> "EACCES", polling |-> NULL],
     [kernel |-> "ENOSPC", polling |-> "ok"],
     [kernel |-> "ENOSPC", polling |-> "error"]}

\* A DiskWatcher.start without the except clause for ENOSPC.
StartObserverNoFallback(outcome) ==
    IF outcome.kernel = "ok" THEN "inotify" ELSE "raised"

\* DiskWatcher.start, the try / except OSError around the observer: the
\* backend that runs, or "raised".
StartObserver(outcome) ==
    IF outcome.kernel = "ok" THEN "inotify"
    ELSE IF outcome.kernel = "ENOSPC"
    THEN IF outcome.polling = "ok" THEN "polling" ELSE "raised"
    ELSE "raised"

\* DiskWatcherThread.__init__
NewThread(path) ==
    [path |-> path, stop_event |-> FALSE, state |-> "new", pc |-> "run",
     watch_job |-> None, job_tracker |-> None, backend |-> NULL,
     host |-> NoHost]

WatcherIds == 1..Len(watchers)

\* DiskWatcherThread.run, first statement.
RunBegin(w) ==
    /\ watchers[w].state = "alive" /\ watchers[w].pc = "run"
    /\ LET job == watchers[w].watch_job
       IN  IF job # None
           THEN /\ jobs' = UpdateJob(jobs, job, "running", NULL, FALSE)
                /\ jobcall' = JobCall("update", job)
                /\ writers' = Wrote(writers, job, WatcherTask(w))
           ELSE UNCHANGED <<jobs, jobcall, writers>>
    /\ watchers' = [watchers EXCEPT ![w].pc = "start"]
    /\ UNCHANGED <<threads, running, caller>>
    /\ UNCHANGED <<catalogVars, discovery, scanVars, liveVars, outerVars>>

\* DiskWatcher.start up to its loop.
RunStartWatcher(w) ==
    /\ watchers[w].state = "alive" /\ watchers[w].pc = "start"
    /\ \E outcome \in ObserverOutcomes :
        LET job == watchers[w].watch_job
            backend == StartObserver(outcome)
        IN  IF backend = "raised"
            THEN /\ watchers' = [watchers EXCEPT ![w].pc = "except",
                                                 ![w].job_tracker = job,
                                                 ![w].host = outcome]
                 /\ UNCHANGED <<jobs, jobcall, writers>>
            ELSE /\ watchers' = [watchers EXCEPT ![w].pc = "loop",
                                                 ![w].job_tracker = job,
                                                 ![w].backend = backend,
                                                 ![w].host = outcome]
                 /\ IF job # None
                    THEN /\ jobs' = UpdateJob(jobs, job, "running", NULL, FALSE)
                         /\ jobcall' = JobCall("update", job)
                         /\ writers' = Wrote(writers, job, WatcherTask(w))
                    ELSE UNCHANGED <<jobs, jobcall, writers>>
    /\ UNCHANGED <<threads, running, caller>>
    /\ UNCHANGED <<catalogVars, discovery, scanVars, liveVars, outerVars>>

\* DiskWatcher.start: the loop sees the stop event and the finally clause
\* runs: the observer is stopped and joined.  (A heartbeat only touches
\* updated_at, which is not modelled.)
RunLoopExit(w) ==
    /\ watchers[w].state = "alive" /\ watchers[w].pc = "loop"
    /\ watchers[w].stop_event
    /\ LET job == watchers[w].job_tracker
       IN  IF job # None
           THEN /\ jobs' = UpdateJob(jobs, job, "stopping", NULL, FALSE)
                /\ jobcall' = JobCall("update", job)
                /\ writers' = Wrote(writers, job, WatcherTask(w))
           ELSE UNCHANGED <<jobs, jobcall, writers>>
    /\ watchers' = [watchers EXCEPT ![w].pc = "else", ![w].backend = NULL,
                                    ![w].host = NoHost]
    /\ UNCHANGED <<threads, running, caller>>
    /\ UNCHANGED <<catalogVars, discovery, scanVars, liveVars, outerVars>>

\* DiskWatcherThread.run, else clause.
RunElse(w) ==
    /\ watchers[w].state = "alive" /\ watchers[w].pc = "else"
    /\ LET job == watchers[w].watch_job
       IN  IF job # None
           THEN /\ jobs' = CompleteJob(jobs, job, "stopped")
                /\ jobcall' = JobCall("complete", job)
                /\ writers' = Wrote(writers, job, WatcherTask(w))
           ELSE UNCHANGED <<jobs, jobcall, writers>>
    /\ watchers' = [watchers EXCEPT ![w].pc = "end", ![w].state = "done"]
    /\ UNCHANGED <<threads, running, caller>>
    /\ UNCHANGED <<catalogVars, discovery, scanVars, liveVars, outerVars>>

\* DiskWatcherThread.run, except clause.
RunExcept(w) ==
    /\ watchers[w].state = "alive" /\ watchers[w].pc = "except"
    /\ LET job == watchers[w].watch_job
       IN  IF job # None
           THEN /\ jobs' = FailJob(jobs, job, "OSError")
                /\ jobcall' = JobCall("fail", job)
                /\ writers' = Wrote(writers, job, WatcherTask(w))
           ELSE UNCHANGED <<jobs, jobcall, writers>>
    /\ watchers' = [watchers EXCEPT ![w].pc = "end", ![w].state = "done",
                                    ![w].host = NoHost]
    /\ UNCHANGED <<threads, running, caller>>
    /\ UNCHANGED <<catalogVars, discovery, scanVars, liveVars, outerVars>>

(***************************************************************************)
(* core/cli.py: run, the jobs left by earlier processes                    *)
(***************************************************************************)
\* pc: "previous" before `diskwatcher run` starts, "cleanup" once the
\* manager is built, "ready" after the sweep.  alive: the pids of the
\* local process table.  owners: per job, the process that created it.
NoStartup == [pc |-> "previous", alive |-> {}, owners |-> <<>>]

NonTerminalStatuses == {"queued", "starting", "running"}

\* The non-terminal jobs the sweep takes for abandoned.
IsStale(row, alive, host) ==
    /\ row.status \in NonTerminalStatuses
    /\ row.owner_pid \notin alive \/ row.owner_host # host

\* cleanup_stale_jobs(conn, lock): mark them stale, stamp completed_at.
CleanupStaleJobs(js, alive, host) ==
    [j \in 1..Len(js) |->
        IF IsStale(js[j], alive, host)
        THEN [js[j] EXCEPT !.status = "stale", !.completed_at = IsoNow]
        ELSE js[j]]

\* A process appears in, or leaves, the local process table.
ProcessSpawn ==
    /\ \E pid \in Pids \ startup.alive :
        /\ startup.pc # "previous" => pid # Getpid
        /\ startup' = [startup EXCEPT !.alive = @ \cup {pid}]
    /\ UNCHANGED <<catalogVars, supervisorVars, scanVars, liveVars, exceptStartup>>

ProcessExit ==
    /\ \E pid \in startup.alive :
        /\ startup.pc # "previous" => pid # Getpid
        /\ startup' = [startup EXCEPT !.alive = @ \ {pid}]
    /\ UNCHANGED <<catalogVars, supervisorVars, scanVars, liveVars, exceptStartup>>

\* The processes that write to the catalog: the local live ones and the
\* ones of other hosts that share the file.
Writers ==
    {w \in [pid : Pids, host : Hosts] : w.host = Hostname => w.pid \in startup.alive}

\* JobHandle.start in another `diskwatcher run`.
OtherStart ==
    /\ Len(jobs) < MaxJobs
    /\ \E w \in Writers, status \in {"queued", "starting"} :
        /\ startup.pc # "previous" => w # [pid |-> Getpid, host |-> Hostname]
        /\ jobs' = CreateJobAs(jobs, "watcher", NoPath, status, w.pid, w.host)
        /\ jobcall' = JobCall("create", Len(jobs) + 1)
        /\ UNCHANGED writers
        /\ startup' = [startup EXCEPT !.owners = Append(@, w)]
    /\ UNCHANGED <<threads, watchers, running, caller, discovery>>
    /\ UNCHANGED <<catalogVars, scanVars, liveVars, exceptStartup>>

\* JobHandle.update / complete / fail by the process that started the job.
OtherUpdate ==
    /\ \E j \in 1..Len(jobs) :
        /\ startup.owners[j] \in Writers
        /\ jobs[j].completed_at = NULL
        /\ \/ /\ jobs[j].status # "running"
              /\ jobs' = UpdateJob(jobs, j, "running", NULL, FALSE)
              /\ jobcall' = JobCall("update", j)
              /\ writers' = Wrote(writers, j, ProcessTask(startup.owners[j]))
           \/ /\ jobs' = CompleteJob(jobs, j, "stopped")
              /\ jobcall' = JobCall("complete", j)
              /\ writers' = Wrote(writers, j, ProcessTask(startup.owners[j]))
           \/ /\ jobs' = FailJob(jobs, j, "error")
              /\ jobcall' = JobCall("fail", j)
              /\ writers' = Wrote(writers, j, ProcessTask(startup.owners[j]))
    /\ UNCHANGED <<threads, watchers, running, caller, discovery>>
    /\ UNCHANGED <<catalogVars, scanVars, liveVars, outerVars>>

\* run(): the process starts and builds its DiskWatcherManager.
RunManager ==
    /\ startup.pc = "previous"
    /\ Getpid \notin startup.alive
    /\ startup' = [startup EXCEPT !.pc = "cleanup", !.alive = @ \cup {Getpid}]
    /\ UNCHANGED <<catalogVars, supervisorVars, scanVars, liveVars, exceptStartup>>

\* run(): cleanup_stale_jobs(manager.conn, lock=manager.conn_lock)
RunCleanup ==
    /\ startup.pc = "cleanup"
    /\ jobs' = CleanupStaleJobs(jobs, startup.alive, Hostname)
    /\ jobcall' = JobCall("cleanup", None)
    /\ writers' = writers \cup
            {<<j, CallerTask("main")>> :
                j \in {i \in 1..Len(jobs) : jobs'[i] # jobs[i]}}
    /\ startup' = [startup EXCEPT !.pc = "ready"]
    /\ UNCHANGED <<threads, watchers, running, caller, discovery>>
    /\ UNCHANGED <<catalogVars, scanVars, liveVars, exceptStartup>>

(***************************************************************************)
(* core/manager.py: DiskWatcherManager                                     *)
(***************************************************************************)
\* The threads that call the manager: the main thread and the
\* auto-discovery thread.
Callers == {"main", "discovery"}

NoPrev == [op |-> "none", arg |-> NoPath, ret |-> None]

\* A caller outside every manager method (the discovery thread, while
\* there is none, has pc "off").  ret and raised keep the result
\* of its last call and arg the path an add_directory call was given, as
\* written; for an add_directory call that follows an
\* add_directory call, prev keeps that earlier call and before the size of
\* the watcher set when the later one began.
Idle ==
    [op |-> "none", pc |-> "idle", arg |-> NoPath, path |-> NoPath,
     thread |-> None, handle |-> None,
     todo |-> <<>>, snap |-> <<>>, status |-> NULL, ret |-> None,
     raised |-> FALSE, prev |-> NoPrev, before |-> 0]

Enter(c, op, arg, path) ==
    IF op = "add_directory" /\ caller[c].op = "add_directory"
    THEN [Idle EXCEPT !.op = op, !.arg = arg, !.path = path,
                      !.prev = [op |-> caller[c].op, arg |-> caller[c].arg,
                                ret |-> caller[c].ret],
                      !.before = Len(threads)]
    ELSE [Idle EXCEPT !.op = op, !.arg = arg, !.path = path]

Return(rec, ret) ==
    [rec EXCEPT !.pc = "idle", !.thread = None, !.handle = None,
                !.todo = <<>>, !.snap = <<>>, !.status = NULL, !.ret = ret]

Raise(rec) == [Return(rec, None) EXCEPT !.raised = TRUE]

\* A lookup that never finds a thread.
FindNothing(ths, path) == {}

\* The positions of the watcher set whose thread watches `path`.
FindExisting(ths, path) == {i \in 1..Len(ths) : watchers[ths[i]].path = path}

First(S) == CHOOSE i \in S : \A j \in S : i <= j

Pop(ths, idx) == [i \in 1..(Len(ths) - 1) |-> IF i < idx THEN ths[i] ELSE ths[i + 1]]

\* The callers between the two locked sections of add_directory.
Appending == {d \in Callers : caller[d].pc = "add_append"}

\* add_directory, first locked section: look for a thread on the path.
AddDirectoryCheck(c, raws) ==
    /\ caller[c].pc = "idle"
    /\ \E raw \in raws :
        LET path == Resolve(raw)
            found == FindExisting(threads, path)
            rec == Enter(c, "add_directory", raw, path)
        IN  IF found # {}
            THEN caller' = [caller EXCEPT ![c] = Return(rec, threads[First(found)])]
            ELSE /\ Len(watchers) + Cardinality(Appending) < MaxWatchers
                 /\ caller' = [caller EXCEPT ![c] = [rec EXCEPT !.pc = "add_append"]]
    /\ UNCHANGED <<threads, watchers, jobs, running, jobcall, writers>>
    /\ UNCHANGED <<catalogVars, discovery, scanVars, liveVars, outerVars>>

\* add_directory, the rest: build the thread, append it under the lock.
AddDirectoryAppend(c) ==
    /\ caller[c].pc = "add_append"
    /\ watchers' = Append(watchers, NewThread(caller[c].path))
    /\ threads' = Append(threads, Len(watchers) + 1)
    /\ caller' = [caller EXCEPT ![c] = Return(@, Len(watchers) + 1)]
    /\ UNCHANGED <<jobs, running, jobcall, writers>>
    /\ UNCHANGED <<catalogVars, discovery, scanVars, liveVars, outerVars>>

\* remove_directory, locked section: pop the first thread on the path.
RemoveDirectoryPop(c) ==
    /\ caller[c].pc = "idle"
    /\ \E raw \in RawPaths :
        LET path == Resolve(raw)
            found == FindExisting(threads, path)
            rec == Enter(c, "remove_directory", NoPath, path)
        IN  IF found = {}
            THEN /\ caller' = [caller EXCEPT ![c] = Return(rec, 0)]
                 /\ UNCHANGED threads
            ELSE /\ threads' = Pop(threads, First(found))
                 /\ caller' = [caller EXCEPT ![c] =
                        [rec EXCEPT !.pc = "remove_stop",
                                    !.thread = threads[First(found)]]]
    /\ UNCHANGED <<watchers, jobs, running, jobcall, writers>>
    /\ UNCHANGED <<catalogVars, discovery, scanVars, liveVars, outerVars>>

\* remove_directory: thread.stop()
RemoveDirectoryStop(c) ==
    /\ caller[c].pc = "remove_stop"
    /\ watchers' = [watchers EXCEPT ![caller[c].thread].stop_event = TRUE]
    /\ caller' = [caller EXCEPT ![c].pc = "remove_join"]
    /\ UNCHANGED <<threads, jobs, running, jobcall, writers>>
    /\ UNCHANGED <<catalogVars, discovery, scanVars, liveVars, outerVars>>

\* remove_directory: if thread.is_alive(): thread.join()
RemoveDirectoryJoin(c) ==
    /\ caller[c].pc = "remove_join"
    /\ watchers[caller[c].thread].state # "alive"
    /\ caller' = [caller EXCEPT ![c].pc = "clear_update", ![c].status = "removed"]
    /\ UNCHANGED <<threads, watchers, jobs, running, jobcall, writers>>
    /\ UNCHANGED <<catalogVars, discovery, scanVars, liveVars, outerVars>>

\* What follows clear_watcher_job in remove_directory and in stop_all.
AfterClear(c, rec) ==
    IF rec.op = "stop_all" /\ Len(rec.todo) > 1
    THEN /\ caller' = [caller EXCEPT ![c] =
                [rec EXCEPT !.pc = "clear_update", !.todo = Tail(rec.todo),
                            !.thread = rec.todo[2]]]
         /\ UNCHANGED running
    ELSE IF rec.op = "stop_all"
    THEN /\ caller' = [caller EXCEPT ![c] = Return(rec, None)]
         /\ running' = FALSE
    ELSE /\ caller' = [caller EXCEPT ![c] = Return(rec, 1)]
         /\ UNCHANGED running

\* DiskWatcherThread.clear_watcher_job up to its update statement; with a
\* status that needs no update the completion follows at once.
ClearWatcherJobUpdate(c) ==
    /\ caller[c].pc = "clear_update"
    /\ LET rec == caller[c]
           t == rec.thread
           job == watchers[t].watch_job
       IN  IF job = None
           THEN UNCHANGED <<watchers, jobs, jobcall, writers>> /\ AfterClear(c, rec)
           ELSE IF rec.status \notin {"stopped", "complete"}
           THEN /\ jobs' = UpdateJob(jobs, job, rec.status, NULL, FALSE)
                /\ jobcall' = JobCall("update", job)
                /\ writers' = Wrote(writers, job, CallerTask(c))
                /\ caller' = [caller EXCEPT ![c].pc = "clear_complete"]
                /\ UNCHANGED <<watchers, running>>
           ELSE /\ jobs' = CompleteJob(jobs, job, rec.status)
                /\ jobcall' = JobCall("complete", job)
                /\ writers' = Wrote(writers, job, CallerTask(c))
                /\ watchers' = [watchers EXCEPT ![t].watch_job = None]
                /\ AfterClear(c, rec)
    /\ UNCHANGED threads
    /\ UNCHANGED <<catalogVars, discovery, scanVars, liveVars, outerVars>>

\* DiskWatcherThread.clear_watcher_job after its update statement.  The
\* handle is read again: None has no complete(), the call raises.
ClearWatcherJobComplete(c) ==
    /\ caller[c].pc = "clear_complete"
    /\ LET rec == caller[c]
           t == rec.thread
           job == watchers[t].watch_job
       IN  IF job = None
           THEN /\ caller' = [caller EXCEPT ![c] = Raise(rec)]
                /\ UNCHANGED <<watchers, jobs, jobcall, writers, running>>
           ELSE /\ jobs' = CompleteJob(jobs, job, rec.status)
                /\ jobcall' = JobCall("complete", job)
                /\ writers' = Wrote(writers, job, CallerTask(c))
                /\ watchers' = [watchers EXCEPT ![t].watch_job = None]
                /\ AfterClear(c, rec)
    /\ UNCHANGED threads
    /\ UNCHANGED <<catalogVars, discovery, scanVars, liveVars, outerVars>>

\* start_all: set _running, snapshot the watcher set.
StartAll(c) ==
    /\ caller[c].pc = "idle"
    /\ running' = TRUE
    /\ LET rec == Enter(c, "start_all", NoPath, NoPath)
       IN  caller' = [caller EXCEPT ![c] =
                IF threads = <<>> THEN Return(rec, None)
                ELSE [rec EXCEPT !.pc = "start_job", !.todo = threads,
                                 !.thread = threads[1]]]
    /\ UNCHANGED <<threads, watchers, jobs, jobcall, writers>>
    /\ UNCHANGED <<catalogVars, discovery, scanVars, liveVars, outerVars>>

\* start_thread(thread): return at once when the thread is alive.
StartThread(c) ==
    /\ caller[c].pc = "idle"
    /\ \E t \in WatcherIds :
        LET rec == Enter(c, "start_thread", NoPath, watchers[t].path)
        IN  caller' = [caller EXCEPT ![c] =
                IF watchers[t].state = "alive" THEN Return(rec, None)
                ELSE [rec EXCEPT !.pc = "start_job", !.todo = <<t>>,
                                 !.thread = t]]
    /\ UNCHANGED <<threads, watchers, jobs, running, jobcall, writers>>
    /\ UNCHANGED <<catalogVars, discovery, scanVars, liveVars, outerVars>>

\* start_all and start_thread: if t.watch_job is None, JobHandle.start
\* creates the watcher job; the handle is not yet on the thread.
StartWatcherJob(c) ==
    /\ caller[c].pc = "start_job"
    /\ LET t == caller[c].thread
       IN  IF watchers[t].watch_job = None
           THEN /\ Len(jobs) < MaxJobs
                /\ jobs' = CreateJob(jobs, "watcher", watchers[t].path, "starting")
                /\ jobcall' = JobCall("create", Len(jobs) + 1)
                /\ UNCHANGED writers
                /\ caller' = [caller EXCEPT ![c].pc = "set_job",
                                            ![c].handle = Len(jobs) + 1]
           ELSE /\ caller' = [caller EXCEPT ![c].pc = "start_thread"]
                /\ UNCHANGED <<jobs, jobcall, writers>>
    /\ UNCHANGED <<threads, watchers, running>>
    /\ UNCHANGED <<catalogVars, discovery, scanVars, liveVars, outerVars>>

\* DiskWatcherThread.set_watcher_job with the handle just created.
SetWatcherJob(c) ==
    /\ caller[c].pc = "set_job"
    /\ watchers' = [watchers EXCEPT ![caller[c].thread].watch_job = caller[c].handle]
    /\ caller' = [caller EXCEPT ![c].pc = "start_thread", ![c].handle = None]
    /\ UNCHANGED <<threads, jobs, running, jobcall, writers>>
    /\ UNCHANGED <<catalogVars, discovery, scanVars, liveVars, outerVars>>

\* start_all: if not t.is_alive(): t.start(), a RuntimeError for a thread
\* that already ran ends the call.  start_thread: thread.start() with the
\* RuntimeError caught.
ThreadStart(c) ==
    /\ caller[c].pc = "start_thread"
    /\ LET rec == caller[c]
           t == rec.thread
           next == IF Len(rec.todo) > 1
                   THEN [rec EXCEPT !.pc = "start_job", !.todo = Tail(rec.todo),
                                    !.thread = rec.todo[2]]
                   ELSE Return(rec, None)
       IN  CASE watchers[t].state = "new" ->
                    /\ watchers' = [watchers EXCEPT ![t].state = "alive"]
                    /\ caller' = [caller EXCEPT ![c] = next]
             [] watchers[t].state = "alive" ->
                    /\ UNCHANGED watchers
                    /\ caller' = [caller EXCEPT ![c] = next]
             [] watchers[t].state = "done" ->
                    /\ UNCHANGED watchers
                    /\ caller' = [caller EXCEPT ![c] =
                            IF rec.op = "start_all" THEN Raise(rec) ELSE next]
    /\ UNCHANGED <<threads, jobs, running, jobcall, writers>>
    /\ UNCHANGED <<catalogVars, discovery, scanVars, liveVars, outerVars>>

\* enable_auto_discovery with roots that hold no mount yet: the priming
\* scan_once finds nothing, the discovery thread is kept and started.
EnableAutoDiscovery(c) ==
    /\ caller[c].pc = "idle"
    /\ discovery = "none"
    /\ discovery' = "running"
    /\ caller' = [caller EXCEPT
            ![c] = Return(Enter(c, "enable_auto_discovery", NoPath, NoPath), None),
            !["discovery"] = [@ EXCEPT !.pc = "idle"]]
    /\ UNCHANGED <<threads, watchers, jobs, running, jobcall, writers>>
    /\ UNCHANGED <<catalogVars, scanVars, liveVars, outerVars>>

\* _AutoDiscoveryThread.run: between two manager calls the loop finds its
\* stop event set and ends.
DiscoveryExit ==
    /\ discovery = "stopping"
    /\ caller["discovery"].pc = "idle"
    /\ discovery' = "exited"
    /\ caller' = [caller EXCEPT !["discovery"].pc = "off"]
    /\ UNCHANGED <<threads, watchers, jobs, running, jobcall, writers>>
    /\ UNCHANGED <<catalogVars, scanVars, liveVars, outerVars>>

\* stop_all after disable_auto_discovery: snapshot the watcher set and stop
\* every thread of it.
StopThreads(c) ==
    /\ watchers' = [w \in WatcherIds |->
            IF \E i \in 1..Len(threads) : threads[i] = w
            THEN [watchers[w] EXCEPT !.stop_event = TRUE] ELSE watchers[w]]
    /\ LET rec == Enter(c, "stop_all", NoPath, NoPath)
       IN  IF threads = <<>>
           THEN /\ caller' = [caller EXCEPT ![c] = Return(rec, None)]
                /\ running' = FALSE
           ELSE /\ caller' = [caller EXCEPT ![c] =
                        [rec EXCEPT !.pc = "stop_join", !.todo = threads,
                                    !.snap = threads, !.thread = threads[1],
                                    !.status = "stopped"]]
                /\ UNCHANGED running

\* stop_all: disable_auto_discovery() returns at once without a discovery
\* thread, else it sets the thread's stop event and joins it.
StopAll(c) ==
    /\ caller[c].pc = "idle"
    /\ IF discovery = "none"
       THEN StopThreads(c) /\ UNCHANGED discovery
       ELSE /\ discovery' = "stopping"
            /\ caller' = [caller EXCEPT ![c] =
                    [Enter(c, "stop_all", NoPath, NoPath) EXCEPT !.pc = "stop_discovery"]]
            /\ UNCHANGED <<watchers, running>>
    /\ UNCHANGED <<threads, jobs, jobcall, writers>>
    /\ UNCHANGED <<catalogVars, scanVars, liveVars, outerVars>>

\* disable_auto_discovery: thread.join() returns, _auto_discovery = None;
\* stop_all goes on to the watcher threads.
DisableAutoDiscoveryJoin(c) ==
    /\ caller[c].pc = "stop_discovery"
    /\ discovery = "exited"
    /\ discovery' = "none"
    /\ StopThreads(c)
    /\ UNCHANGED <<threads, jobs, jobcall, writers>>
    /\ UNCHANGED <<catalogVars, scanVars, liveVars, outerVars>>

\* stop_all: if t.is_alive(): t.join(), for the next thread of the snapshot.
StopAllJoin(c) ==
    /\ caller[c].pc = "stop_join"
    /\ watchers[caller[c].thread].state # "alive"
    /\ LET rec == caller[c]
       IN  caller' = [caller EXCEPT ![c] =
                IF Len(rec.todo) > 1
                THEN [rec EXCEPT !.todo = Tail(rec.todo), !.thread = rec.todo[2]]
                ELSE [rec EXCEPT !.pc = "clear_update", !.todo = rec.snap,
                                 !.thread = rec.snap[1]]]
    /\ UNCHANGED <<threads, watchers, jobs, running, jobcall, writers>>
    /\ UNCHANGED <<catalogVars, discovery, scanVars, liveVars, outerVars>>

\* stop_all: t.join() on a thread that is still alive is cut short by an
\* exception raised in the caller (a second KeyboardInterrupt); stop_all
\* has no try statement, the exception leaves it.
StopAllJoinInterrupted(c) ==
    /\ caller[c].pc = "stop_join"
    /\ watchers[caller[c].thread].state = "alive"
    /\ caller' = [caller EXCEPT ![c] = [Raise(caller[c]) EXCEPT !.thread = caller[c].thread]]
    /\ UNCHANGED <<threads, watchers, jobs, running, jobcall, writers>>
    /\ UNCHANGED <<catalogVars, discovery, scanVars, liveVars, outerVars>>

\* stop_all: t.clear_watcher_job(status="stopped") where the UPDATE of
\* JobHandle.complete raises sqlite3.OperationalError (_execute does not
\* retry): the row and the handle stay, the exception leaves stop_all.
ClearWatcherJobRaises(c) ==
    /\ caller[c].pc = "clear_update"
    /\ caller[c].op = "stop_all"
    /\ watchers[caller[c].thread].watch_job # None
    /\ caller' = [caller EXCEPT ![c] = [Raise(caller[c]) EXCEPT !.thread = caller[c].thread]]
    /\ UNCHANGED <<threads, watchers, jobs, running, jobcall, writers>>
    /\ UNCHANGED <<catalogVars, discovery, scanVars, liveVars, outerVars>>

\* A path is its basename split into a stem and the trailing part that
\* str.endswith() looks at; every path lies under the volume's directory.
PathA == [stem |-> "a", ext |-> ".txt"]
PathTmp == [stem |-> "b", ext |-> ".tmp"]
StatFile == [kind |-> "file", size |-> 2, mtime |-> 10, ctime |-> 10]

NoCall == [op |-> "none", event_type |-> "existing", path |-> PathA,
           volume_id |-> "vol-1", timestamp |-> 0, meta |-> EmptyMeta,
           st |-> StatAbsent, usage |-> NoTime, fault |-> "none",
           inserted |-> FALSE, swallowed |-> FALSE, raised |-> FALSE]

(***************************************************************************)
(* core/manager.py: run_initial_scans                                      *)
(***************************************************************************)
MaxScanCalls == 1
MaxScanEvents == 4

\* DiskWatcherManager._exclude_patterns, handed to every DiskWatcher that
\* add_directory builds.  The glob "*.tmp" is kept as the suffix it asks for.
ExcludePatterns == {".tmp"}

\* fnmatch.fnmatch(str(path), pattern) for a pattern "*<suffix>".
Fnmatch(path, pattern) == path.ext = pattern

\* DiskWatcher._is_excluded
IsExcluded(path, exclude_patterns) ==
    \E pattern \in exclude_patterns : Fnmatch(path, pattern)

\* The volume a watcher root lies on (DiskWatcher.uuid).
VolumeOf(path) == IF path.target = "/mnt/one" THEN "vol-1" ELSE "vol-2"

\* A directory name; no exclude pattern of the model matches one.
DirName(name) == [stem |-> name, ext |-> ""]

\* os.walk(self.path): the root with the file a.txt, then a subdirectory
\* with the file b.tmp, which the exclude patterns match.
Walk ==
    <<[root |-> DirName("."), files |-> <<PathA>>],
      [root |-> DirName("sub"), files |-> <<PathTmp>>]>>

\* DiskWatcherManager._database_path(): a file path, or None for a catalog
\* in memory on a connection the manager was handed.
DatabasePaths == {NULL, "catalog.db"}

NoScan ==
    [pc |-> "idle", parallel |-> FALSE, db_path |-> NULL, targets |-> <<>>,
     scan_jobs |-> <<>>, i |-> 0, results |-> <<>>, created |-> {},
     outcome |-> "none", calls |-> 0]

\* One archive_existing_files run: the DiskWatcher it runs on (its exclude
\* patterns, its own stop_event), its arguments and its loop position.
NewScanner(thread, job, exclude_patterns, where) ==
    [thread |-> thread, job_tracker |-> job, exclude_patterns |-> exclude_patterns,
     where |-> where, interruptible |-> FALSE, stop_event |-> FALSE,
     pc |-> "queued", dir |-> 0, file |-> 0,
     files_scanned |-> 0, directories_seen |-> 0, status |-> "queued"]

ScanTargets == 1..Len(scanner)

\* archive_existing_files pushes its progress after every 500th file.
PROGRESS_EVERY == 500

\* The counts of self.scan_stats, as handed to the job.
ScanStats(sc, status) ==
    [status |-> status, files_scanned |-> sc.files_scanned,
     directories_seen |-> sc.directories_seen]

\* failure_stats of run_initial_scans: no counts.
FailureStats == [NoProgress EXCEPT !.status = "failed"]

\* The scan_jobs dictionary of one run_initial_scans activation: one
\* JobHandle.start(job_type="initial_scan", status="queued") per target.
QueuedJobs(js, targets) ==
    [k \in 1..(Len(js) + Len(targets)) |->
        IF k <= Len(js) THEN js[k]
        ELSE [job_type |-> "initial_scan", path |-> watchers[targets[k - Len(js)]].path,
              status |-> "queued", error_message |-> NULL, completed_at |-> NULL,
              progress |-> NoProgress, owner_pid |-> Getpid, owner_host |-> Hostname]]

\* run_initial_scans up to the branch on `parallel`: the targets, [] for
\* none, one queued job per target.
RunInitialScans(c) ==
    /\ caller[c].pc = "idle"
    /\ scans.calls < MaxScanCalls
    /\ \E parallel \in BOOLEAN, db_path \in DatabasePaths :
        LET rec == Enter(c, "run_initial_scans", NoPath, NoPath)
            n == Len(threads)
        IN  IF threads = <<>>
            THEN /\ caller' = [caller EXCEPT ![c] = Return(rec, 0)]
                 /\ scans' = [NoScan EXCEPT !.outcome = "returned",
                                            !.calls = scans.calls + 1]
                 /\ UNCHANGED <<jobs, jobcall, writers, scanner>>
            ELSE /\ caller' = [caller EXCEPT ![c] = [rec EXCEPT !.pc = "scan"]]
                 /\ jobs' = QueuedJobs(jobs, threads)
                 /\ jobcall' = JobCall("create", Len(jobs) + n)
                 /\ UNCHANGED writers
                 /\ scans' = [NoScan EXCEPT
                        !.pc = "branch", !.parallel = parallel, !.db_path = db_path,
                        !.targets = threads,
                        !.scan_jobs = [k \in 1..n |-> Len(jobs) + k],
                        !.created = (Len(jobs) + 1)..(Len(jobs) + n),
                        !.calls = scans.calls + 1]
                 /\ scanner' = [k \in 1..n |->
                        NewScanner(threads[k], Len(jobs) + k, ExcludePatterns, "caller")]
    /\ UNCHANGED <<threads, watchers, running, discovery>>
    /\ UNCHANGED <<catalogVars, liveVars, outerVars>>

\* run_initial_scans at `if not parallel`: the serial loop, or the worker
\* pool, or without a database path the call of
\* run_initial_scans(parallel=False, threads=target_threads), which queues
\* its own job per target.
ScanBranch(c) ==
    /\ caller[c].pc = "scan"
    /\ scans.pc = "branch"
    /\ LET n == Len(scans.targets)
       IN  IF ~scans.parallel
           THEN /\ scans' = [scans EXCEPT !.pc = "serial", !.i = 1]
                /\ UNCHANGED <<jobs, jobcall, writers, scanner>>
           ELSE IF scans.db_path = NULL
           THEN /\ jobs' = QueuedJobs(jobs, scans.targets)
                /\ jobcall' = JobCall("create", Len(jobs) + n)
                /\ UNCHANGED writers
                /\ scans' = [scans EXCEPT
                        !.parallel = FALSE,
                        !.scan_jobs = [k \in 1..n |-> Len(jobs) + k],
                        !.created = @ \cup ((Len(jobs) + 1)..(Len(jobs) + n))]
                /\ scanner' = [k \in 1..n |->
                        NewScanner(scans.targets[k], Len(jobs) + k,
                                   ExcludePatterns, "caller")]
           ELSE /\ scans' = [scans EXCEPT !.pc = "parallel"]
                /\ scanner' = [k \in 1..n |->
                        [NewScanner(scans.targets[k], scans.scan_jobs[k], {}, "worker")
                            EXCEPT !.pc = "submitted"]]
                /\ UNCHANGED <<jobs, jobcall, writers>>
    /\ UNCHANGED <<threads, watchers, running, caller, discovery>>
    /\ UNCHANGED <<catalogVars, liveVars, outerVars>>

\* The task that runs archive_existing_files for target k: the thread
\* that called run_initial_scans, or the k-th worker process.
ScanTask(k) ==
    IF scanner[k].where = "worker" THEN WorkerTask(k)
    ELSE CallerTask(CHOOSE c \in Callers : caller[c].pc = "scan")

\* The serial loop: job_handle.update(status="running"), then
\* archive_existing_files begins on the thread's own DiskWatcher with
\* job_tracker.update(status="running", progress=scan_stats).
\* _archive_directory_in_process: a DiskWatcher built without exclude
\* patterns, the same update, the same call.
ArchiveBegin(k) ==
    /\ \/ /\ scanner[k].where = "caller"
          /\ scans.pc = "serial" /\ scans.i = k
          /\ scanner[k].pc = "queued"
       \/ /\ scanner[k].where = "worker"
          /\ scanner[k].pc = "submitted"
    /\ jobs' = TouchJob(UpdateJob(jobs, scanner[k].job_tracker, "running", NULL, FALSE),
                        scanner[k].job_tracker, ScanStats(scanner[k], "running"))
    /\ jobcall' = JobCall("update", scanner[k].job_tracker)
    /\ writers' = Wrote(writers, scanner[k].job_tracker, ScanTask(k))
    /\ scanner' = [scanner EXCEPT ![k].pc = "walk", ![k].dir = 1, ![k].file = 0,
                                  ![k].status = "running"]
    /\ UNCHANGED <<threads, watchers, running, caller, discovery, scans>>
    /\ UNCHANGED <<catalogVars, liveVars, outerVars>>

\* archive_existing_files at the top of the os.walk loop: the end of the
\* walk with its last heartbeat, the interruption test, the exclusion of
\* the directory.
ArchiveDirectory(k) ==
    /\ scanner[k].pc = "walk"
    /\ scanner[k].file = 0
    /\ LET sc == scanner[k]
       IN  IF sc.dir > Len(Walk)
           THEN /\ scanner' = [scanner EXCEPT ![k].pc = "done", ![k].status = "complete"]
                /\ jobs' = TouchJob(jobs, sc.job_tracker, ScanStats(sc, "complete"))
                /\ jobcall' = JobCall("heartbeat", sc.job_tracker)
                /\ writers' = Wrote(writers, sc.job_tracker, ScanTask(k))
           ELSE IF sc.interruptible /\ sc.stop_event
           THEN /\ scanner' = [scanner EXCEPT ![k].pc = "done",
                                              ![k].status = "interrupted"]
                /\ jobs' = TouchJob(UpdateJob(jobs, sc.job_tracker, "interrupted",
                                              NULL, FALSE),
                                    sc.job_tracker, ScanStats(sc, "interrupted"))
                /\ jobcall' = JobCall("update", sc.job_tracker)
                /\ writers' = Wrote(writers, sc.job_tracker, ScanTask(k))
           ELSE IF IsExcluded(Walk[sc.dir].root, sc.exclude_patterns)
           THEN /\ scanner' = [scanner EXCEPT ![k].dir = sc.dir + 1]
                /\ UNCHANGED <<jobs, jobcall, writers>>
           ELSE /\ scanner' = [scanner EXCEPT
                        ![k].directories_seen = sc.directories_seen + 1,
                        ![k].file = 1]
                /\ UNCHANGED <<jobs, jobcall, writers>>
    /\ UNCHANGED <<threads, watchers, running, caller, discovery, scans>>
    /\ UNCHANGED <<catalogVars, liveVars, outerVars>>

\* The scanner after the file at hand.
NextFile(sc) ==
    IF sc.file < Len(Walk[sc.dir].files)
    THEN [sc EXCEPT !.file = sc.file + 1]
    ELSE [sc EXCEPT !.dir = sc.dir + 1, !.file = 0]

\* archive_existing_files, one file of the directory: skipped when
\* excluded, else self.log_event("existing", full) and, on every
\* PROGRESS_EVERY-th file, job_tracker.heartbeat(progress=scan_stats); an
\* exception of the INSERT leaves archive_existing_files.
ArchiveFile(k) ==
    /\ scanner[k].pc = "walk"
    /\ scanner[k].file > 0
    /\ LET sc == scanner[k]
           full == Walk[sc.dir].files[sc.file]
           volume_id == VolumeOf(watchers[sc.thread].path)
           after == [NextFile(sc) EXCEPT !.files_scanned = sc.files_scanned + 1]
       IN  IF IsExcluded(full, sc.exclude_patterns)
           THEN /\ scanner' = [scanner EXCEPT ![k] = NextFile(sc)]
                /\ UNCHANGED <<events, volumes, files, last, jobs, jobcall, writers>>
           ELSE \E fault \in {"none", "insert"} :
                /\ Len(events) < MaxScanEvents
                /\ LogEventRows("existing", full, volume_id, 0, EmptyMeta, StatFile,
                                1000, fault)
                /\ scanner' = [scanner EXCEPT ![k] =
                        IF fault = "insert" THEN [sc EXCEPT !.pc = "raised"] ELSE after]
                /\ IF fault # "insert" /\ after.files_scanned % PROGRESS_EVERY = 0
                   THEN /\ jobs' = TouchJob(jobs, sc.job_tracker, ScanStats(after, "running"))
                        /\ jobcall' = JobCall("heartbeat", sc.job_tracker)
                        /\ writers' = Wrote(writers, sc.job_tracker, ScanTask(k))
                   ELSE UNCHANGED <<jobs, jobcall, writers>>
    /\ UNCHANGED <<threads, watchers, running, caller, discovery>>
    /\ UNCHANGED <<scans, liveVars, outerVars>>

\* A record of the results list.
ScanResult(k, status) == [thread |-> scanner[k].thread, status |-> status]

\* What follows the last target of the serial loop, or the last future.
ScanReturn(c, results) ==
    caller' = [caller EXCEPT ![c] = Return(@, Len(results))]

\* The serial loop after archive_existing_files returned:
\* job_handle.complete(status=final_status), results.append(stats).
SerialComplete(c) ==
    /\ caller[c].pc = "scan"
    /\ scans.pc = "serial"
    /\ LET k == scans.i
           results == Append(scans.results, ScanResult(k, scanner[k].status))
       IN  /\ scanner[k].pc = "done"
           /\ jobs' = TouchJob(CompleteJob(jobs, scanner[k].job_tracker,
                                           scanner[k].status),
                               scanner[k].job_tracker,
                               ScanStats(scanner[k], scanner[k].status))
           /\ jobcall' = JobCall("complete", scanner[k].job_tracker)
           /\ writers' = Wrote(writers, scanner[k].job_tracker, CallerTask(c))
           /\ scanner' = [scanner EXCEPT ![k].pc = "collected"]
           /\ IF k < Len(scans.targets)
              THEN /\ scans' = [scans EXCEPT !.i = k + 1, !.results = results]
                   /\ UNCHANGED caller
              ELSE /\ scans' = [scans EXCEPT !.pc = "idle", !.results = results,
                                             !.outcome = "returned"]
                   /\ ScanReturn(c, results)
    /\ UNCHANGED <<threads, watchers, running, discovery>>
    /\ UNCHANGED <<catalogVars, liveVars, outerVars>>

\* The serial loop when archive_existing_files raised:
\* job_handle.fail(error=str(exc)); raise.
SerialFail(c) ==
    /\ caller[c].pc = "scan"
    /\ scans.pc = "serial"
    /\ LET k == scans.i
       IN  /\ scanner[k].pc = "raised"
           /\ jobs' = FailJob(jobs, scanner[k].job_tracker, "insert")
           /\ jobcall' = JobCall("fail", scanner[k].job_tracker)
           /\ writers' = Wrote(writers, scanner[k].job_tracker, CallerTask(c))
           /\ scanner' = [scanner EXCEPT ![k].pc = "collected"]
           /\ scans' = [scans EXCEPT !.pc = "idle", !.outcome = "raised"]
           /\ caller' = [caller EXCEPT ![c] = Raise(@)]
    /\ UNCHANGED <<threads, watchers, running, discovery>>
    /\ UNCHANGED <<catalogVars, liveVars, outerVars>>

\* _archive_directory_in_process after archive_existing_files returned:
\* job_handle.complete(status=final_status), the stats are the result of
\* the future.
WorkerComplete(k) ==
    /\ scanner[k].where = "worker"
    /\ scanner[k].pc = "done"
    /\ jobs' = TouchJob(CompleteJob(jobs, scanner[k].job_tracker, scanner[k].status),
                        scanner[k].job_tracker,
                        ScanStats(scanner[k], scanner[k].status))
    /\ jobcall' = JobCall("complete", scanner[k].job_tracker)
    /\ writers' = Wrote(writers, scanner[k].job_tracker, WorkerTask(k))
    /\ scanner' = [scanner EXCEPT ![k].pc = "result"]
    /\ UNCHANGED <<threads, watchers, running, caller, discovery, scans>>
    /\ UNCHANGED <<catalogVars, liveVars, outerVars>>

\* for future in as_completed(futures): the exception of the worker fails
\* the job and appends failure_stats; a result completes the job and
\* appends the stats.  After the last future the results are returned.
ParallelCollect(c) ==
    /\ caller[c].pc = "scan"
    /\ scans.pc = "parallel"
    /\ \E k \in ScanTargets :
        /\ scanner[k].pc \in {"result", "raised"}
        /\ LET failed == scanner[k].pc = "raised"
               status == IF failed THEN "failed" ELSE scanner[k].status
               results == Append(scans.results, ScanResult(k, status))
           IN  /\ jobs' = IF failed
                          THEN TouchJob(FailJob(jobs, scanner[k].job_tracker, "insert"),
                                        scanner[k].job_tracker, FailureStats)
                          ELSE TouchJob(CompleteJob(jobs, scanner[k].job_tracker,
                                                    status),
                                        scanner[k].job_tracker,
                                        ScanStats(scanner[k], status))
               /\ jobcall' = JobCall(IF failed THEN "fail" ELSE "complete",
                                     scanner[k].job_tracker)
               /\ writers' = Wrote(writers, scanner[k].job_tracker, CallerTask(c))
               /\ scanner' = [scanner EXCEPT ![k].pc = "collected",
                                             ![k].status = status]
               /\ IF \A j \in ScanTargets \ {k} : scanner[j].pc = "collected"
                  THEN /\ scans' = [scans EXCEPT !.pc = "idle", !.results = results,
                                                 !.outcome = "returned"]
                       /\ ScanReturn(c, results)
                  ELSE /\ scans' = [scans EXCEPT !.results = results]
                       /\ UNCHANGED caller
    /\ UNCHANGED <<threads, watchers, running, discovery>>
    /\ UNCHANGED <<catalogVars, liveVars, outerVars>>

\* DiskWatcherThread.stop(), called by any thread: the thread's stop_event
\* is set.
ThreadStop(w) ==
    /\ ~watchers[w].stop_event
    /\ watchers' = [watchers EXCEPT ![w].stop_event = TRUE]
    /\ UNCHANGED <<threads, jobs, running, caller, jobcall, writers, discovery>>
    /\ UNCHANGED <<catalogVars, scanVars, liveVars, outerVars>>

(***************************************************************************)
(* core/watcher.py: DiskWatcher, the notification handlers                 *)
(***************************************************************************)
NoNotification ==
    [op |-> "none", watcher |-> None, backend |-> NULL, event_type |-> NULL,
     path |-> PathA, excluded |-> FALSE, raised |-> FALSE]

\* The paths of the file notifications: one that no exclude pattern
\* matches and one that "*.tmp" matches.
NotifiedPaths == {PathA, PathTmp}

\* on_created / on_modified / on_deleted of watcher w's DiskWatcher while
\* its observer runs: DiskWatcher.log_event returns for an excluded path,
\* else it calls log_event of the catalog; no statement on the way up to
\* the observer catches what that call raises.
OnNotification(w) ==
    /\ watchers[w].state = "alive" /\ watchers[w].pc = "loop"
    /\ \E event_type \in LiveEventTypes, path \in NotifiedPaths :
        LET excluded == IsExcluded(path, ExcludePatterns)
            st == IF event_type = "deleted" THEN StatAbsent ELSE StatFile
            rec == [op |-> "notify", watcher |-> w, backend |-> watchers[w].backend,
                    event_type |-> event_type, path |-> path,
                    excluded |-> excluded, raised |-> FALSE]
        IN  IF excluded
            THEN /\ notified' = rec
                 /\ UNCHANGED <<catalogVars, supervisorVars>>
            ELSE \E fault \in {"none", "insert"} :
                 /\ LogEvent(event_type, path, VolumeOf(watchers[w].path), 0,
                             EmptyMeta, st, 1000, fault, MaxEvents)
                 /\ notified' = [rec EXCEPT !.raised = (fault = "insert")]
    /\ UNCHANGED <<scanVars, outerVars>>

(***************************************************************************)
(* core/cli.py: stream, db/events.py: query_events_since                   *)
(***************************************************************************)
MaxStreamLimit == 2

\* The stream command before it runs: no limit, last_rowid = 0, nothing
\* echoed.  echoed lists the rowids written to stdout.
NoReader == [pc |-> "off", limit |-> 0, last_rowid |-> 0, echoed |-> <<>>]

Min(a, b) == IF a < b THEN a ELSE b

\* SELECT ... WHERE rowid >= ? ORDER BY rowid ASC LIMIT ?
QueryEventsFrom(evs, last_rowid, limit) ==
    LET first == IF last_rowid = 0 THEN 1 ELSE last_rowid
    IN  [i \in 1..Min(limit, Len(evs) - first + 1) |-> first + i - 1]

\* query_events_since: SELECT ... WHERE rowid > ? ORDER BY rowid ASC
\* LIMIT ?; the rowids of the rows it returns (events is in rowid order,
\* the id column is AUTOINCREMENT and no row is ever deleted).
QueryEventsSince(evs, last_rowid, limit) ==
    [i \in 1..Min(limit, Len(evs) - last_rowid) |-> last_rowid + i]

\* stream: the options are checked, the catalog opened, last_rowid = 0.
StreamStart ==
    /\ reader.pc = "off"
    /\ \E limit \in 1..MaxStreamLimit :
        reader' = [reader EXCEPT !.pc = "polling", !.limit = limit]
    /\ UNCHANGED <<catalogVars, supervisorVars, scanVars, liveVars, exceptReader>>

\* stream, one round of `while True` that finds rows: they are echoed in
\* the order returned and last_rowid becomes the rowid of the last one.
StreamPoll ==
    /\ reader.pc = "polling"
    /\ LET rows == QueryEventsSince(events, reader.last_rowid, reader.limit)
       IN  /\ rows # <<>>
           /\ reader' = [reader EXCEPT !.echoed = @ \o rows,
                                       !.last_rowid = rows[Len(rows)]]
    /\ UNCHANGED <<catalogVars, supervisorVars, scanVars, liveVars, exceptReader>>

\* The watchers of two volumes append events, any INSERT able to fail.
AppendWatcherEvent ==
    /\ \E event_type \in LiveEventTypes, volume_id \in VolumeIds,
          fault \in {"none", "insert"} :
        LogEvent(event_type, PathA, volume_id, 0, EmptyMeta, StatFile, 1000,
                 fault, MaxEvents)
    /\ UNCHANGED <<scanVars, liveVars, outerVars>>

(***************************************************************************)
(* core/manager.py: conn_lock, core/watcher.py: log_event, db/jobs.py:     *)
(* _execute -- the write transactions on the shared connection             *)
(***************************************************************************)
\* The threads of one supervisor that write: the thread that calls the
\* manager (it creates the job handles) and two watcher threads.
ConnTasks == {"main", "watcher-1", "watcher-2"}

\* A manager that builds no lock.
NoConnLock == NULL

\* DiskWatcherManager.__init__: self.conn = conn or init_db();
\* self.conn_lock = Lock() if self.conn else None.  The same object is
\* handed to every DiskWatcherThread (add_directory) and to every
\* JobHandle.start (lock=self.conn_lock).
ConnLock == "Lock"

\* holder: the thread that holds conn_lock; pc: where each thread stands
\* ("idle", "ready" to execute, "open" inside the transaction, "done"
\* after the commit); txn: the threads inside a write transaction.
NoConn ==
    [lock |-> ConnLock, holder |-> NULL, pc |-> [t \in ConnTasks |-> "idle"],
     txn |-> {}]

\* `if self.conn_lock: with self.conn_lock:` in DiskWatcher.log_event and
\* `if lock: with lock:` in _execute: Lock.acquire returns once nobody
\* holds the lock; without a lock the statement is reached at once.
LockEnter(t) ==
    /\ conn.pc[t] = "idle"
    /\ IF conn.lock # NULL
       THEN /\ conn.holder = NULL
            /\ conn' = [conn EXCEPT !.holder = t, !.pc[t] = "ready"]
       ELSE conn' = [conn EXCEPT !.pc[t] = "ready"]
    /\ UNCHANGED <<catalogVars, supervisorVars, scanVars, liveVars, exceptConn>>

\* `with conn:` / conn.execute: the first write statement opens the
\* transaction.
TxnBegin(t) ==
    /\ conn.pc[t] = "ready"
    /\ conn' = [conn EXCEPT !.pc[t] = "open", !.txn = @ \cup {t}]
    /\ UNCHANGED <<catalogVars, supervisorVars, scanVars, liveVars, exceptConn>>

\* A watcher thread inside log_event: the rows are written and committed.
TxnCommitEvent(t) ==
    /\ t # "main"
    /\ conn.pc[t] = "open"
    /\ \E event_type \in LiveEventTypes, fault \in {"none", "insert"} :
        LogEvent(event_type, PathA,
                 IF t = "watcher-1" THEN "vol-1" ELSE "vol-2", 0, EmptyMeta,
                 StatFile, 1000, fault, MaxEvents)
    /\ conn' = [conn EXCEPT !.pc[t] = "done", !.txn = @ \ {t}]
    /\ UNCHANGED <<scanVars, liveVars, exceptConn>>

\* The manager's thread inside _execute: JobHandle.start inserts a watcher
\* job, or a handle updates one.
TxnCommitJob(t) ==
    /\ t = "main"
    /\ conn.pc[t] = "open"
    /\ \/ /\ Len(jobs) < MaxJobs
          /\ jobs' = CreateJob(jobs, "watcher", NoPath, "starting")
          /\ jobcall' = JobCall("create", Len(jobs) + 1)
          /\ UNCHANGED writers
       \/ \E j \in 1..Len(jobs) :
            /\ jobs[j].status = "starting"
            /\ jobs' = CompleteJob(jobs, j, "stopped")
            /\ jobcall' = JobCall("complete", j)
            /\ writers' = Wrote(writers, j, CallerTask(t))
    /\ conn' = [conn EXCEPT !.pc[t] = "done", !.txn = @ \ {t}]
    /\ UNCHANGED <<threads, watchers, running, caller, discovery>>
    /\ UNCHANGED <<catalogVars, scanVars, liveVars, exceptConn>>

\* The with statement of the lock is left.
LockExit(t) ==
    /\ conn.pc[t] = "done"
    /\ conn' = [conn EXCEPT !.pc[t] = "idle",
                            !.holder = IF conn.lock # NULL THEN NULL ELSE @]
    /\ UNCHANGED <<catalogVars, supervisorVars, scanVars, liveVars, exceptConn>>

(***************************************************************************)
(* db/events.py: _execute_with_retry                                       *)
(***************************************************************************)
MaxRetryCalls == 3

DB_MAX_RETRIES == 3
\* _DB_RETRY_DELAY_BASE = 0.05 seconds, in milliseconds.
DB_RETRY_DELAY_BASE == 50

\* What conn.execute can raise: the type of the exception and the words of
\* str(exc).lower().
ExecuteErrors ==
    {[type |-> "OperationalError", words |-> {"database", "is", "locked"}],
     [type |-> "OperationalError", words |-> {"database", "is", "busy"}],
     [type |-> "OperationalError", words |-> {"disk", "i/o", "error"}],
     [type |-> "IntegrityError", words |-> {"unique", "constraint", "failed"}]}

\* calls: the calls made so far; attempt: the loop variable; seen: the
\* exceptions conn.execute raised in this call; waits: the sleeps of this
\* call, in milliseconds; applied: how often the statement took effect.
NoRetry ==
    [pc |-> "idle", calls |-> 0, attempt |-> 0, seen |-> <<>>, waits |-> <<>>,
     applied |-> 0, outcome |-> NULL]

\* An except clause that sleeps after every OperationalError.
AfterAnyError(exc, attempt) ==
    IF exc.type # "OperationalError" THEN "raise"
    ELSE IF attempt = DB_MAX_RETRIES - 1 THEN "raise"
    ELSE "sleep"

\* The except clause: only sqlite3.OperationalError is caught; without
\* "locked" or "busy" in the message, or in the last round, it is raised.
AfterError(exc, attempt) ==
    IF exc.type # "OperationalError" THEN "raise"
    ELSE IF "locked" \notin exc.words /\ "busy" \notin exc.words THEN "raise"
    ELSE IF attempt = DB_MAX_RETRIES - 1 THEN "raise"
    ELSE "sleep"

\* _execute_with_retry is called with a statement.
ExecuteCall ==
    /\ retry.pc = "idle"
    /\ retry.calls < MaxRetryCalls
    /\ retry' = [NoRetry EXCEPT !.pc = "execute", !.calls = retry.calls + 1]
    /\ UNCHANGED <<catalogVars, supervisorVars, scanVars, liveVars, exceptRetry>>

\* conn.execute(sql, params): the statement takes effect and the function
\* returns, or it raises and the except clause decides.
ExecuteAttempt ==
    /\ retry.pc = "execute"
    /\ retry.attempt < DB_MAX_RETRIES
    /\ \/ retry' = [retry EXCEPT !.pc = "idle", !.applied = @ + 1,
                                  !.outcome = "returned"]
       \/ \E exc \in ExecuteErrors :
            retry' = IF AfterError(exc, retry.attempt) = "raise"
                     THEN [retry EXCEPT !.pc = "idle", !.seen = Append(@, exc),
                                        !.outcome = "raised"]
                     ELSE [retry EXCEPT !.pc = "sleep", !.seen = Append(@, exc)]
    /\ UNCHANGED <<catalogVars, supervisorVars, scanVars, liveVars, exceptRetry>>

\* time.sleep(_DB_RETRY_DELAY_BASE * (2 ** attempt)), then the next round.
RetrySleep ==
    /\ retry.pc = "sleep"
    /\ retry' = [retry EXCEPT
            !.pc = "execute",
            !.waits = Append(@, DB_RETRY_DELAY_BASE * (2 ^ retry.attempt)),
            !.attempt = @ + 1]
    /\ UNCHANGED <<catalogVars, supervisorVars, scanVars, liveVars, exceptRetry>>

(***************************************************************************)
(* db/jobs.py: the jobs table with its time columns, JobHandle, fetch_jobs *)
(***************************************************************************)
MaxLockCalls == 4
MaxTableRows == 2
MaxTableClock == 4

\* A progress dictionary a caller hands over, or none.
Progresses ==
    {NoProgress, [status |-> "running", files_scanned |-> 1, directories_seen |-> 1]}

\* The statuses JobHandle.update is called with, and those of complete.
UpdateStatuses == {"running", "interrupted", "stale", "cancelled"}
CompleteStatuses == {"complete", "stopped"}

NoTableCall ==
    [op |-> "none", job_id |-> None, status |-> NULL, progress |-> NoProgress,
     error |-> NULL]

\* rows: the table; clock: what _iso_now() last returned.
NoTable == [rows |-> <<>>, clock |-> 0, last |-> NoTableCall]

\* create_job: INSERT with started_at = updated_at = now.
CreateJobAt(rows, now, job_type, status) ==
    Append(rows, [job_type |-> job_type, status |-> status,
                  progress |-> NoProgress, error_message |-> NULL,
                  started_at |-> now, updated_at |-> now,
                  completed_at |-> NoTime])

\* An update_job that writes every column it has a parameter for.
UpdateJobOverwrites(rows, job_id, now, status, progress, error, completed) ==
    [rows EXCEPT ![job_id] =
        [@ EXCEPT !.updated_at = now, !.status = status, !.progress = progress,
                  !.error_message = error,
                  !.completed_at = IF completed THEN now ELSE @]]

\* update_job: UPDATE jobs SET updated_at = ?, and one assignment for each
\* argument that is given, WHERE job_id = ?
UpdateJobAt(rows, job_id, now, status, progress, error, completed) ==
    [rows EXCEPT ![job_id] =
        [@ EXCEPT !.updated_at = now,
                  !.status = IF status # NULL THEN status ELSE @,
                  !.progress = IF progress # NoProgress THEN progress ELSE @,
                  !.error_message = IF error # NULL THEN error ELSE @,
                  !.completed_at = IF completed THEN now ELSE @]]

TableCall(op, job_id, status, progress, error) ==
    [op |-> op, job_id |-> job_id, status |-> status, progress |-> progress,
     error |-> error]

\* JobHandle.start
TableCreate ==
    /\ Len(table.rows) < MaxTableRows
    /\ table.clock < MaxTableClock
    /\ \E job_type \in {"initial_scan", "watcher"} :
        LET now == table.clock + 1
            status == IF job_type = "watcher" THEN "starting" ELSE "queued"
        IN  table' = [rows |-> CreateJobAt(table.rows, now, job_type, status),
                      clock |-> now,
                      last |-> TableCall("create", Len(table.rows) + 1, status,
                                         NoProgress, NULL)]
    /\ UNCHANGED <<catalogVars, supervisorVars, scanVars, liveVars, exceptTable>>

\* JobHandle.update(status, progress, error), each of them given or not.
TableUpdate ==
    /\ table.clock < MaxTableClock
    /\ \E job_id \in 1..Len(table.rows), status \in UpdateStatuses \cup {NULL},
          progress \in Progresses, error \in {NULL, "boom"} :
        LET now == table.clock + 1
        IN  table' = [rows |-> UpdateJobAt(table.rows, job_id, now, status,
                                           progress, error, FALSE),
                      clock |-> now,
                      last |-> TableCall("update", job_id, status, progress, error)]
    /\ UNCHANGED <<catalogVars, supervisorVars, scanVars, liveVars, exceptTable>>

\* JobHandle.heartbeat(progress): touch_job
TableHeartbeat ==
    /\ table.clock < MaxTableClock
    /\ \E job_id \in 1..Len(table.rows), progress \in Progresses :
        LET now == table.clock + 1
        IN  table' = [rows |-> UpdateJobAt(table.rows, job_id, now, NULL,
                                           progress, NULL, FALSE),
                      clock |-> now,
                      last |-> TableCall("heartbeat", job_id, NULL, progress, NULL)]
    /\ UNCHANGED <<catalogVars, supervisorVars, scanVars, liveVars, exceptTable>>

\* JobHandle.complete(status) and JobHandle.fail(error)
TableFinish ==
    /\ table.clock < MaxTableClock
    /\ \E job_id \in 1..Len(table.rows), status \in CompleteStatuses \cup {"failed"} :
        LET now == table.clock + 1
            error == IF status = "failed" THEN "boom" ELSE NULL
        IN  table' = [rows |-> UpdateJobAt(table.rows, job_id, now, status,
                                           NoProgress, error, TRUE),
                      clock |-> now,
                      last |-> TableCall(IF status = "failed" THEN "fail"
                                         ELSE "complete",
                                         job_id, status, NoProgress, error)]
    /\ UNCHANGED <<catalogVars, supervisorVars, scanVars, liveVars, exceptTable>>

\* fetch_jobs: the statuses its WHERE clause leaves out.
FetchExcluded == {"complete", "stopped", "removed", "cancelled"}

\* fetch_jobs(include_finished): the rows selected (their order, by
\* updated_at, is not followed).
FetchJobs(rows, include_finished) ==
    {j \in 1..Len(rows) : include_finished \/ rows[j].status \notin FetchExcluded}

(***************************************************************************)
(* conn_lock and _threads_lock: the locked sections of every operation     *)
(***************************************************************************)
LockNames == {"conn_lock", "threads_lock"}
LockTasks == {"main", "discovery", "watcher"}

Acquire(l) == [op |-> "acquire", lock |-> l]
Release(l) == [op |-> "release", lock |-> l]

\* `with lock:` around statements that take no lock.
Section(l) == <<Acquire(l), Release(l)>>

\* _execute of db/jobs.py, DiskWatcher.log_event, the commit of
\* run_initial_scans: `with conn_lock:` around statements of the
\* connection.
ConnSection == Section("conn_lock")

\* _snapshot_threads: `with self._threads_lock: return list(self.threads)`
SnapshotThreads == Section("threads_lock")

\* add_directory: the lookup under the lock, the thread built outside it,
\* the append under the lock.
AddDirectoryLocks == Section("threads_lock") \o Section("threads_lock")

\* start_all and start_thread: the snapshot (start_all), JobHandle.start.
StartAllLocks == SnapshotThreads \o ConnSection
StartThreadLocks == ConnSection

\* A remove_directory that clears the watcher job before it leaves the
\* locked block.
RemoveDirectoryNested ==
    <<Acquire("threads_lock")>> \o ConnSection \o ConnSection
        \o <<Release("threads_lock")>>

\* remove_directory: the pop under the lock; stop, join and
\* clear_watcher_job (an update and a complete) after it.
RemoveDirectoryLocks == Section("threads_lock") \o ConnSection \o ConnSection

\* stop_all: the snapshot, then stop, join and clear_watcher_job.
StopAllLocks == SnapshotThreads \o ConnSection

\* run_initial_scans: JobHandle.start for a target, the commit, the jobs'
\* updates.
RunInitialScansLocks == ConnSection \o ConnSection \o ConnSection

\* _sync_state: current_paths(), add_directory, start_thread,
\* remove_directory.
SyncStateLocks ==
    {SnapshotThreads, AddDirectoryLocks, StartThreadLocks, RemoveDirectoryLocks}

\* What each thread can be asked to do.
LockScripts(t) ==
    CASE t = "main" ->
            {AddDirectoryLocks, StartAllLocks, StopAllLocks, RunInitialScansLocks,
             RemoveDirectoryLocks}
      [] t = "discovery" -> SyncStateLocks
      [] t = "watcher" -> {ConnSection}

NoLocks ==
    [holder |-> [l \in LockNames |-> NULL],
     todo |-> [t \in LockTasks |-> <<>>],
     calls |-> 0]

\* A thread begins an operation.
LockBegin(t) ==
    /\ locks.todo[t] = <<>>
    /\ locks.calls < MaxLockCalls
    /\ \E script \in LockScripts(t) :
        locks' = [locks EXCEPT !.todo[t] = script, !.calls = @ + 1]
    /\ UNCHANGED <<catalogVars, supervisorVars, scanVars, liveVars, exceptLocks>>

\* Lock.acquire(): blocks while the lock is held, by whomever.
LockAcquire(t) ==
    /\ locks.todo[t] # <<>>
    /\ Head(locks.todo[t]).op = "acquire"
    /\ locks.holder[Head(locks.todo[t]).lock] = NULL
    /\ locks' = [locks EXCEPT !.holder[Head(locks.todo[t]).lock] = t,
                              !.todo[t] = Tail(@)]
    /\ UNCHANGED <<catalogVars, supervisorVars, scanVars, liveVars, exceptLocks>>

\* Lock.release() at the end of the with block.
LockRelease(t) ==
    /\ locks.todo[t] # <<>>
    /\ Head(locks.todo[t]).op = "release"
    /\ locks' = [locks EXCEPT !.holder[Head(locks.todo[t]).lock] = NULL,
                              !.todo[t] = Tail(@)]
    /\ UNCHANGED <<catalogVars, supervisorVars, scanVars, liveVars, exceptLocks>>

(***************************************************************************)
(* core/watcher.py: DiskWatcher._refresh_mount_metadata                    *)
(***************************************************************************)
MaxNow == 8100
MaxMountCalls == 6

MOUNT_METADATA_INITIAL_REFRESH_SECONDS == 300
MOUNT_METADATA_MAX_REFRESH_SECONDS == 3600

\* float("inf"), later than every reading of time.monotonic().
Never == 1000000

\* self._mount_metadata = None.
NoMetadata == [present |-> FALSE, has_lsblk |-> FALSE, lsblk |-> {}]

\* What get_mount_info returns when it returns a dict: lsblk is None, or a
\* dict whose keys with a truthy value are listed.
MountInfos ==
    {[present |-> TRUE, has_lsblk |-> FALSE, lsblk |-> {}],
     [present |-> TRUE, has_lsblk |-> TRUE, lsblk |-> {"LABEL"}],
     [present |-> TRUE, has_lsblk |-> TRUE, lsblk |-> {"SERIAL"}],
     [present |-> TRUE, has_lsblk |-> TRUE, lsblk |-> {"UUID", "LABEL"}]}

\* get_mount_info raises, returns something that is no dict, or a dict.
ProbeOutcomes ==
    [kind : {"raised", "nothing"}, info : {NoMetadata}]
        \cup [kind : {"info"}, info : MountInfos]

\* _metadata_complete
MetadataComplete(metadata) ==
    /\ metadata.present
    /\ metadata.has_lsblk
    /\ metadata.lsblk \cap {"UUID", "PTUUID", "PARTUUID", "SERIAL", "WWN"} # {}

\* now: time.monotonic(); metadata, interval, next: _mount_metadata,
\* _mount_metadata_interval, _next_mount_metadata_refresh; probes: the
\* calls of get_mount_info so far, failed: those that raised or gave no
\* complete metadata, probed_at: the time of the last one; calls: the
\* log_event and refresh calls so far; payload: the metadata the last
\* log_event handed to the catalog.
NoMount ==
    [pc |-> "new", now |-> 0, metadata |-> NoMetadata,
     interval |-> MOUNT_METADATA_INITIAL_REFRESH_SECONDS, next |-> 0,
     probes |-> 0, failed |-> 0, probed_at |-> 0, calls |-> 0,
     payload |-> NoMetadata, last |-> "none"]

Max(a, b) == IF a > b THEN a ELSE b

\* _schedule_next_mount_refresh
ScheduleNextMountRefresh(m, now) ==
    LET interval == Max(m.interval, MOUNT_METADATA_INITIAL_REFRESH_SECONDS)
    IN  [m EXCEPT !.next = now + interval,
                  !.interval = Min(interval * 2, MOUNT_METADATA_MAX_REFRESH_SECONDS)]

\* A probe: get_mount_info is called and what it gives is stored.
Probe(m, outcome) ==
    LET probed == [m EXCEPT !.probes = @ + 1, !.probed_at = m.now]
    IN  IF outcome.kind # "info"
        THEN [ScheduleNextMountRefresh(probed, m.now) EXCEPT !.failed = @ + 1]
        ELSE IF MetadataComplete(outcome.info)
        THEN [probed EXCEPT !.metadata = outcome.info, !.next = Never]
        ELSE [ScheduleNextMountRefresh([probed EXCEPT !.metadata = outcome.info],
                                       m.now) EXCEPT !.failed = @ + 1]

\* A refresh that probes whenever it is forced.
RefreshWhenForced(m, force, outcome) ==
    IF ~force /\ m.metadata.present /\ m.now < m.next THEN m
    ELSE Probe(m, outcome)

\* _refresh_mount_metadata(force)
RefreshMountMetadata(m, force, outcome) ==
    IF m.metadata.present /\ MetadataComplete(m.metadata) THEN m
    ELSE IF ~force /\ m.metadata.present /\ m.now < m.next THEN m
    ELSE Probe(m, outcome)

\* DiskWatcher.__init__: self._refresh_mount_metadata(force=True)
WatcherNew ==
    /\ mount.pc = "new"
    /\ \E outcome \in ProbeOutcomes :
        mount' = [RefreshMountMetadata(mount, TRUE, outcome) EXCEPT
                    !.pc = "ready", !.last = "init"]
    /\ UNCHANGED <<catalogVars, supervisorVars, scanVars, liveVars, exceptMount>>

\* time.monotonic() moves on: by ten minutes, to one second before the
\* scheduled refresh, or to the scheduled refresh.
MonotonicAdvance ==
    /\ mount.pc = "ready"
    /\ \E now \in {mount.now + 600, mount.next - 1, mount.next} :
        /\ mount.now < now /\ now <= MaxNow
        /\ mount' = [mount EXCEPT !.now = now, !.last = "clock"]
    /\ UNCHANGED <<catalogVars, supervisorVars, scanVars, liveVars, exceptMount>>

\* DiskWatcher.log_event: mount_metadata = self._refresh_mount_metadata(),
\* which goes into the event's payload.
WatcherLogEvent ==
    /\ mount.pc = "ready"
    /\ mount.calls < MaxMountCalls
    /\ \E outcome \in ProbeOutcomes :
        LET after == RefreshMountMetadata(mount, FALSE, outcome)
        IN  mount' = [after EXCEPT !.calls = @ + 1, !.payload = after.metadata,
                                   !.last = "event"]
    /\ UNCHANGED <<catalogVars, supervisorVars, scanVars, liveVars, exceptMount>>

\* A later call of _refresh_mount_metadata, forced or not.
RefreshCall ==
    /\ mount.pc = "ready"
    /\ mount.calls < MaxMountCalls
    /\ \E force \in BOOLEAN, outcome \in ProbeOutcomes :
        mount' = [RefreshMountMetadata(mount, force, outcome) EXCEPT
                    !.calls = @ + 1, !.last = "refresh"]
    /\ UNCHANGED <<catalogVars, supervisorVars, scanVars, liveVars, exceptMount>>

(***************************************************************************)
(* core/manager.py: _AutoDiscoveryThread                                   *)
(***************************************************************************)
MaxMountChanges == 2
MaxDiscoveryJobs == 4
MaxPasses == 2
MaxEnables == 1

\* The child directories of the roots that can be mount points, resolved,
\* in the order sorted() gives them.
MountOrder ==
    <<[target |-> "/mnt/one", via |-> "direct"],
      [target |-> "/mnt/two", via |-> "direct"]>>
MountPaths == {MountOrder[i] : i \in 1..Len(MountOrder)}

Sorted(paths) == SelectSeq(MountOrder, LAMBDA p : p \in paths)

\* The discovery thread between two scan_once calls.  mounted is the
\* host's answer to os.path.ismount; passes counts the scan_once calls made
\* since mounted last changed.  added, fresh and removed remember the
\* watchers that add_directory built for a discovery thread, those built in
\* the scan_once under way, and those whose remove_directory was called by
\* a discovery thread; enables counts the enable_auto_discovery calls
\* that replaced the thread.  loop is where _AutoDiscoveryThread.run
\* stands: at its loop test, inside scan_once, or in _stop_event.wait.
NoSync ==
    [pc |-> "idle", mounted |-> {}, changes |-> 0, passes |-> 0,
     db_path |-> "unset", auto_paths |-> {},
     discovered |-> {}, existing_paths |-> {}, todo |-> <<>>,
     new_threads |-> <<>>, stale |-> {},
     added |-> {}, fresh |-> {}, removed |-> {}, enables |-> 0,
     loop |-> "test"]

\* DiskWatcherManager.current_paths()
CurrentPaths == {watchers[threads[i]].path : i \in 1..Len(threads)}

\* Disks are plugged in or pulled between two scans.
MountChange ==
    /\ sync.pc = "idle"
    /\ sync.changes < MaxMountChanges
    /\ \E mounted \in (SUBSET MountPaths) \ {sync.mounted} :
        sync' = [sync EXCEPT !.mounted = mounted, !.changes = @ + 1,
                             !.passes = 0]
    /\ UNCHANGED <<catalogVars, supervisorVars, scanVars, liveVars, exceptSync>>

\* _sync_state: discovered = self._collect_directories(),
\* existing_paths = set(self.manager.current_paths()).
SyncCollect ==
    /\ sync.pc = "idle"
    /\ sync.passes < MaxPasses \/ discovery # "none"
    /\ sync' = [sync EXCEPT
            !.pc = "add", !.discovered = sync.mounted,
            !.loop = IF discovery = "none" THEN @ ELSE "scan",
            !.existing_paths = CurrentPaths,
            !.todo = Sorted(sync.mounted), !.new_threads = <<>>]
    /\ UNCHANGED <<catalogVars, supervisorVars, scanVars, liveVars, exceptSync>>

\* The end of scan_once, by return or by the exception it logs.
EndPass(rec) ==
    [rec EXCEPT !.pc = "idle", !.passes = Min(@ + 1, MaxPasses), !.todo = <<>>,
                !.new_threads = <<>>, !.discovered = {},
                !.existing_paths = {}, !.stale = {}, !.fresh = {},
                !.loop = IF @ = "scan" THEN "wait" ELSE @]

\* A scan_once without its except clause: the exception ends the thread.
ScanOnceUnguarded(rec) == [EndPass(rec) EXCEPT !.loop = "dead"]

\* scan_once, `except Exception`: the failure is logged, scan_once returns.
ScanOnceExcept(rec) == EndPass(rec)

\* _sync_state, `for path in sorted(discovered)`: a path already watched
\* is passed over, another one goes to add_directory (no other thread
\* calls the manager: its two locked sections run as one) and is noted in
\* auto_paths and new_threads.  After the last path: the scan of the new
\* threads, or at once the removals.
SyncAdd ==
    /\ sync.pc = "add"
    /\ IF sync.todo = <<>>
       THEN /\ sync' = IF sync.new_threads # <<>>
                       THEN [sync EXCEPT !.pc = "scan"]
                       ELSE [sync EXCEPT !.pc = "remove",
                                         !.stale = sync.auto_paths \ sync.discovered]
            /\ UNCHANGED <<threads, watchers>>
       ELSE LET path == Head(sync.todo)
                found == FindExisting(threads, path)
            IN  IF path \in sync.existing_paths
                THEN /\ sync' = [sync EXCEPT !.todo = Tail(@)]
                     /\ UNCHANGED <<threads, watchers>>
                ELSE /\ IF found # {}
                        THEN UNCHANGED <<threads, watchers>>
                        ELSE /\ Len(watchers) < MaxWatchers
                             /\ watchers' = Append(watchers, NewThread(path))
                             /\ threads' = Append(threads, Len(watchers) + 1)
                     /\ sync' = [sync EXCEPT
                            !.todo = Tail(@),
                            !.existing_paths = @ \cup {path},
                            !.auto_paths = @ \cup {path},
                            !.new_threads = Append(@,
                                IF found # {} THEN threads[First(found)]
                                ELSE Len(watchers) + 1),
                            !.added = IF found # {} THEN @
                                      ELSE @ \cup {Len(watchers) + 1},
                            !.fresh = IF found # {} THEN @
                                      ELSE @ \cup {Len(watchers) + 1}]
    /\ UNCHANGED <<jobs, running, caller, jobcall, writers, discovery>>
    /\ UNCHANGED <<catalogVars, scanVars, liveVars, exceptSync>>

\* The jobs table after run_initial_scans(parallel=True, threads=targets)
\* has run to its end: one queued job per target; with a database path
\* every worker's job completed or failed; without one a second job per
\* target and the serial loop, which stops at the first target whose
\* archive_existing_files raises.  `fails` are those targets.  The progress
\* column keeps NoProgress: the counts of these scans are not followed here.
ScannedJobs(js, targets, db_path, fails) ==
    LET n == Len(targets)
        q1 == QueuedJobs(js, targets)
        q2 == QueuedJobs(q1, targets)
        first == IF fails = {} THEN n + 1 ELSE First(fails)
    IN  IF db_path # NULL
        THEN [j \in 1..Len(q1) |->
                IF j <= Len(js) THEN q1[j]
                ELSE IF (j - Len(js)) \in fails THEN FailJob(q1, j, "insert")[j]
                ELSE CompleteJob(q1, j, "complete")[j]]
        ELSE [j \in 1..Len(q2) |->
                IF j <= Len(q1) THEN q2[j]
                ELSE IF j - Len(q1) < first THEN CompleteJob(q2, j, "complete")[j]
                ELSE IF j - Len(q1) = first THEN FailJob(q2, j, "insert")[j]
                ELSE q2[j]]

\* Who wrote the jobs of ScannedJobs: with a database path the k-th worker
\* and then the auto-discovery thread, which collects the future; without
\* one the auto-discovery thread alone, up to the target that raises.
ScannedWriters(js, targets, db_path, fails) ==
    LET n == Len(targets)
        first == IF fails = {} THEN n ELSE First(fails)
    IN  IF db_path # NULL
        THEN {<<Len(js) + k, WorkerTask(k)>> : k \in 1..n}
             \cup {<<Len(js) + k, CallerTask("discovery")>> : k \in 1..n}
        ELSE {<<Len(js) + n + k, CallerTask("discovery")>> : k \in 1..first}

\* _sync_state, `if self.scan_new`: run_initial_scans on the new threads.
\* What it raises ends scan_once; else, the manager not running, the
\* removals follow.
SyncScanNew ==
    /\ sync.pc = "scan"
    /\ \E db_path \in DatabasePaths, fails \in SUBSET (1..Len(sync.new_threads)) :
        LET after == ScannedJobs(jobs, sync.new_threads, db_path, fails)
            raised == db_path = NULL /\ fails # {}
        IN  /\ sync.db_path \in {"unset", db_path}
            /\ Len(after) <= MaxDiscoveryJobs
            /\ jobs' = after
            /\ jobcall' = JobCall("create", Len(after))
            /\ writers' = writers \cup
                    ScannedWriters(jobs, sync.new_threads, db_path, fails)
            /\ sync' = IF raised
                       THEN [ScanOnceExcept(sync) EXCEPT !.db_path = db_path]
                       ELSE [sync EXCEPT !.pc = "remove", !.db_path = db_path,
                                         !.stale = sync.auto_paths \ sync.discovered]
    /\ ~running
    /\ UNCHANGED <<threads, watchers, running, caller, discovery>>
    /\ UNCHANGED <<catalogVars, scanVars, liveVars, exceptSync>>

\* _sync_state, `for path in list(self.auto_paths)`: remove_directory for
\* a path no longer discovered; the thread popped was never started, so
\* there is no join and no watcher job to clear.  auto_paths forgets the
\* path when remove_directory returned True.
SyncRemove ==
    /\ sync.pc = "remove"
    /\ IF sync.stale = {}
       THEN /\ sync' = EndPass(sync)
            /\ UNCHANGED <<threads, watchers>>
       ELSE \E path \in sync.stale :
            LET found == FindExisting(threads, path)
            IN  IF found = {}
                THEN /\ sync' = [sync EXCEPT !.stale = @ \ {path}]
                     /\ UNCHANGED <<threads, watchers>>
                ELSE LET t == threads[First(found)]
                     IN  /\ watchers[t].state # "alive"
                         /\ watchers[t].watch_job = None
                         /\ threads' = Pop(threads, First(found))
                         /\ watchers' = [watchers EXCEPT ![t].stop_event = TRUE]
                         /\ sync' = [sync EXCEPT !.stale = @ \ {path},
                                                 !.auto_paths = @ \ {path},
                                                 !.removed = @ \cup {t}]
    /\ UNCHANGED <<jobs, running, caller, jobcall, writers, discovery>>
    /\ UNCHANGED <<catalogVars, scanVars, liveVars, exceptSync>>

\* enable_auto_discovery while a discovery thread exists:
\* disable_auto_discovery stops and joins it, the new _AutoDiscoveryThread
\* begins with an empty auto_paths and makes the priming scan_once.
ReenableAutoDiscovery ==
    /\ sync.pc = "idle"
    /\ sync.enables < MaxEnables
    /\ sync' = [sync EXCEPT !.auto_paths = {}, !.passes = 0, !.enables = @ + 1]
    /\ UNCHANGED <<catalogVars, supervisorVars, scanVars, liveVars, exceptSync>>

\* _AutoDiscoveryThread.run: `while not self._stop_event.is_set():
\* self.scan_once()`, the loop test and the call it guards.
LoopCycle ==
    /\ discovery = "running"
    /\ sync.loop = "test"
    /\ SyncCollect

\* _AutoDiscoveryThread.run: self._stop_event.wait(self.interval) returns,
\* the interval over or the stop event set.
LoopWake ==
    /\ discovery \in {"running", "stopping"}
    /\ sync.loop = "wait"
    /\ sync' = [sync EXCEPT !.loop = "test"]
    /\ UNCHANGED <<catalogVars, supervisorVars, scanVars, liveVars, exceptSync>>

\* _AutoDiscoveryThread.run: the loop test finds the stop event set.
LoopExit ==
    /\ sync.loop = "test"
    /\ DiscoveryExit

\* Disks are plugged in or pulled while the thread waits, as long as there
\* is room for the watchers and the scan jobs of the new mounts.
LoopMountChange ==
    /\ MountChange
    /\ LET new == sync'.mounted \ CurrentPaths
       IN  /\ Len(watchers) + Cardinality(new) <= MaxWatchers
           /\ Len(jobs) + 2 * Cardinality(new) <= MaxDiscoveryJobs

\* enable_auto_discovery before any disk is mounted.
LoopEnable ==
    /\ sync.mounted = {}
    /\ sync.pc = "idle"
    /\ EnableAutoDiscovery("main")

NoSupervisor ==
    /\ threads = <<>>
    /\ watchers = <<>>
    /\ jobs = <<>>
    /\ running = FALSE
    /\ caller = [c \in Callers |->
                    IF c = "discovery" THEN [Idle EXCEPT !.pc = "off"] ELSE Idle]
    /\ jobcall = JobCall("none", None)
    /\ writers = {}
    /\ discovery = "none"
    /\ scans = NoScan
    /\ scanner = <<>>
    /\ notified = NoNotification
    /\ startup = NoStartup
    /\ sync = NoSync
    /\ reader = NoReader
    /\ conn = NoConn
    /\ retry = NoRetry
    /\ mount = NoMount
    /\ table = NoTable
    /\ locks = NoLocks

EmptyCatalog ==
    /\ events = <<>>
    /\ volumes = [v \in {} |-> NewVolumeRow(DirectoryOf(v))]
    /\ files = [k \in {} |-> 0]
    /\ last = NoCall
    /\ NoSupervisor

(***************************************************************************)
(* Spec: events of every kind on two volumes, every write statement able   *)
(* to give up.                                                             *)
(***************************************************************************)
Init == EmptyCatalog

AppendEvent ==
    /\ \E event_type \in EventTypes, volume_id \in VolumeIds, fault \in Faults :
            LogEvent(event_type, PathA, volume_id, 0, EmptyMeta, StatFile, 1000,
                     fault, MaxEvents)
    /\ UNCHANGED <<scanVars, liveVars, outerVars>>

Next == AppendEvent

Spec == Init /\ [][Next]_vars

(***************************************************************************)
(* SpecFiles: live events on one path, timestamps in any order, every      *)
(* outcome of stat, the file statement able to give up.                    *)
(***************************************************************************)
FileTimestamps == {0, 150}

AppendFileEvent ==
    /\ \E event_type \in LiveEventTypes, timestamp \in FileTimestamps :
            \E st \in (IF event_type = "deleted" THEN {StatAbsent} ELSE StatResults) :
                \E fault \in (IF FileStatementRuns(event_type, PathA, st)
                              THEN {"none", "file"} ELSE {"none"}) :
                    LogEvent(event_type, PathA, "vol-1", timestamp, EmptyMeta, st,
                             1000, fault, MaxEvents)
    /\ UNCHANGED <<scanVars, liveVars, outerVars>>

NextFiles == AppendFileEvent

SpecFiles == Init /\ [][NextFiles]_vars

(***************************************************************************)
(* SpecDeny: events of every kind on paths of the deny-set and on one      *)
(* other path, a regular file each time; the statements of the two         *)
(* derivations can give up.                                                *)
(***************************************************************************)
DeniedPaths ==
    FILE_IGNORE_NAMES
        \cup {PathTmp, [stem |-> "a.txt", ext |-> "~"]}

AppendDeniedEvent ==
    /\ \E event_type \in EventTypes, path \in DeniedPaths \cup {PathA},
          fault \in {"none", "volume", "file"} :
            LogEvent(event_type, path, "vol-1", 0, EmptyMeta, StatFile, 1000, fault,
                     MaxEvents)
    /\ UNCHANGED <<scanVars, liveVars, outerVars>>

NextDeny == AppendDeniedEvent

SpecDeny == Init /\ [][NextDeny]_vars

(***************************************************************************)
(* SpecUsage: one volume, either fresh or after PrimedEvents events that   *)
(* all carried timestamp 0; every outcome of the capacity read.            *)
(***************************************************************************)
PrimedEvents == 99

\* The row of vol-1 after PrimedEvents 'existing' events that all carried
\* timestamp 0: the first one refreshed the usage, the others only counted.
PrimedVolumeRow ==
    [NewVolumeRow(DirectoryOf("vol-1")) EXCEPT
        !.event_count = PrimedEvents,
        !.last_event_timestamp = 0,
        !.events_since_refresh = PrimedEvents - 1,
        !.usage_total_bytes = 1000,
        !.usage_refreshed_at = 0]

PrimedCatalog ==
    /\ events = [i \in 1..PrimedEvents |->
                    [timestamp |-> 0, event_type |-> "existing",
                     path |-> PathTmp, volume_id |-> "vol-1"]]
    /\ volumes = [v \in {"vol-1"} |-> PrimedVolumeRow]
    /\ files = [k \in {} |-> 0]
    /\ last = NoCall
    /\ NoSupervisor

InitUsage == EmptyCatalog \/ PrimedCatalog

AppendUsageEvent ==
    /\ \E timestamp \in Timestamps, usage \in {NoTime, 1000} :
            \E fault \in (IF UsageStatementRuns(volumes, "vol-1", DirectoryOf("vol-1"),
                                                "modified", timestamp, usage)
                          THEN {"none", "volume", "usage"} ELSE {"none", "volume"}) :
                LogEvent("modified", PathTmp, "vol-1", timestamp, EmptyMeta, StatAbsent,
                         usage, fault,
                         (IF Len(events) >= PrimedEvents THEN PrimedEvents ELSE 0) + MaxEvents)
    /\ UNCHANGED <<scanVars, liveVars, outerVars>>

NextUsage == AppendUsageEvent

SpecUsage == InitUsage /\ [][NextUsage]_vars

(***************************************************************************)
(* SpecIdentity: one volume, every mount metadata dictionary.              *)
(***************************************************************************)
AppendIdentityEvent ==
    /\ \E timestamp \in FileTimestamps, meta \in MetaInputs :
            LogEvent("existing", PathTmp, "vol-1", timestamp, meta, StatAbsent,
                     1000, "none", MaxEvents)
    /\ UNCHANGED <<scanVars, liveVars, outerVars>>

NextIdentity == AppendIdentityEvent

SpecIdentity == Init /\ [][NextIdentity]_vars

(***************************************************************************)
(* SpecSup: two threads call the manager while the watcher threads run.    *)
(* SpecSeq: the main thread alone calls the manager.                       *)
(***************************************************************************)
ManagerCall(c) ==
    \/ AddDirectoryCheck(c, RawPaths)
    \/ AddDirectoryAppend(c)
    \/ RemoveDirectoryPop(c)
    \/ RemoveDirectoryStop(c)
    \/ RemoveDirectoryJoin(c)
    \/ ClearWatcherJobUpdate(c)
    \/ ClearWatcherJobComplete(c)
    \/ StartAll(c)
    \/ StartThread(c)
    \/ StartWatcherJob(c)
    \/ SetWatcherJob(c)
    \/ ThreadStart(c)
    \/ StopAll(c)
    \/ StopAllJoin(c)

WatcherRun(w) ==
    \/ RunBegin(w)
    \/ RunStartWatcher(w)
    \/ RunLoopExit(w)
    \/ RunElse(w)
    \/ RunExcept(w)

\* The manager methods the command line calls on the main thread.
MainCall(c) ==
    \/ AddDirectoryCheck(c, DirectPaths)
    \/ AddDirectoryAppend(c)
    \/ StartAll(c)
    \/ StartWatcherJob(c)
    \/ SetWatcherJob(c)
    \/ ThreadStart(c)
    \/ EnableAutoDiscovery(c)
    \/ StopAll(c)
    \/ DisableAutoDiscoveryJoin(c)
    \/ StopAllJoin(c)
    \/ ClearWatcherJobUpdate(c)
    \/ ClearWatcherJobComplete(c)

\* The manager methods _AutoDiscoveryThread._sync_state calls.
DiscoveryCall(c) ==
    \/ AddDirectoryCheck(c, DirectPaths)
    \/ AddDirectoryAppend(c)
    \/ StartThread(c)
    \/ StartWatcherJob(c)
    \/ SetWatcherJob(c)
    \/ ThreadStart(c)
    \/ RemoveDirectoryPop(c)
    \/ RemoveDirectoryStop(c)
    \/ RemoveDirectoryJoin(c)
    \/ ClearWatcherJobUpdate(c)
    \/ ClearWatcherJobComplete(c)

NextSup ==
    \/ MainCall("main")
    \/ DiscoveryCall("discovery")
    \/ DiscoveryExit
    \/ \E w \in WatcherIds : WatcherRun(w)

SpecSup == Init /\ [][NextSup]_vars

NextSeq ==
    \/ ManagerCall("main")
    \/ \E w \in WatcherIds : WatcherRun(w)

SpecSeq == Init /\ [][NextSeq]_vars

(***************************************************************************)
(* SpecScan: the main thread adds two directories and calls                *)
(* run_initial_scans in either mode, with and without a database path;     *)
(* any INSERT of the scan can fail; any thread can stop a watcher thread.  *)
(***************************************************************************)
ScanPaths == [target : {"/mnt/one", "/mnt/two"}, via : {"direct"}]

ScanCall(c) ==
    \/ AddDirectoryCheck(c, ScanPaths)
    \/ AddDirectoryAppend(c)
    \/ RunInitialScans(c)
    \/ ScanBranch(c)
    \/ SerialComplete(c)
    \/ SerialFail(c)
    \/ ParallelCollect(c)

Archive(k) ==
    \/ ArchiveBegin(k)
    \/ ArchiveDirectory(k)
    \/ ArchiveFile(k)
    \/ WorkerComplete(k)

NextScan ==
    \/ ScanCall("main")
    \/ \E k \in ScanTargets : Archive(k)
    \/ \E w \in WatcherIds : ThreadStop(w)

SpecScan == Init /\ [][NextScan]_vars

(***************************************************************************)
(* SpecLive: one directory is added and started; its watcher thread runs   *)
(* on whichever backend the host allows and handles file notifications,    *)
(* any INSERT able to fail; any thread can stop the watcher thread.        *)
(***************************************************************************)
LiveCall(c) ==
    \/ AddDirectoryCheck(c, DirectPaths)
    \/ AddDirectoryAppend(c)
    \/ StartAll(c)
    \/ StartWatcherJob(c)
    \/ SetWatcherJob(c)
    \/ ThreadStart(c)

NextLive ==
    \/ LiveCall("main")
    \/ \E w \in WatcherIds : WatcherRun(w)
    \/ \E w \in WatcherIds : OnNotification(w)
    \/ \E w \in WatcherIds : ThreadStop(w)

SpecLive == Init /\ [][NextLive]_vars

(***************************************************************************)
(* SpecStale: processes on this host and on another one start, update and  *)
(* finish jobs, and come and go; then `diskwatcher run` starts here and     *)
(* sweeps the jobs table.                                                  *)
(***************************************************************************)
NextStale ==
    \/ ProcessSpawn
    \/ ProcessExit
    \/ OtherStart
    \/ OtherUpdate
    \/ RunManager
    \/ RunCleanup

SpecStale == Init /\ [][NextStale]_vars

(***************************************************************************)
(* SpecDiscovery: the discovery object of a manager that is not started   *)
(* (as in tests/test_diskwatcher.py) makes one scan_once after the other   *)
(* while disks are plugged in and pulled between the scans.                *)
(***************************************************************************)
NextDiscovery ==
    \/ MountChange
    \/ SyncCollect
    \/ SyncAdd
    \/ SyncScanNew
    \/ SyncRemove

SpecDiscovery == Init /\ [][NextDiscovery]_vars

(***************************************************************************)
(* SpecShared: the discovery thread of SpecDiscovery shares the manager    *)
(* with the main thread, which adds and removes directories itself and     *)
(* enables auto-discovery anew.                                            *)
(***************************************************************************)
\* add_directory and remove_directory called on the main thread.
DirectCall(c) ==
    \/ AddDirectoryCheck(c, DirectPaths)
    \/ AddDirectoryAppend(c)
    \/ RemoveDirectoryPop(c)
    \/ RemoveDirectoryStop(c)
    \/ RemoveDirectoryJoin(c)
    \/ ClearWatcherJobUpdate(c)

NextShared ==
    \/ MountChange
    \/ SyncCollect
    \/ SyncAdd
    \/ SyncScanNew
    \/ SyncRemove
    \/ ReenableAutoDiscovery
    \/ DirectCall("main")

SpecShared == Init /\ [][NextShared]_vars

(***************************************************************************)
(* SpecLoop: auto-discovery is enabled, its thread runs one scan_once      *)
(* after the other while disks are plugged in and pulled, a scan can       *)
(* raise, and the main thread calls stop_all.  Every thread that can take  *)
(* a step takes one in the end.                                            *)
(***************************************************************************)
LoopThread ==
    \/ LoopCycle
    \/ SyncAdd
    \/ SyncScanNew
    \/ SyncRemove
    \/ LoopWake
    \/ LoopExit

LoopMain ==
    \/ LoopEnable
    \/ StopAll("main")
    \/ DisableAutoDiscoveryJoin("main")
    \/ StopAllJoin("main")
    \/ ClearWatcherJobUpdate("main")

NextLoop ==
    \/ LoopMountChange
    \/ LoopThread
    \/ LoopMain

SpecLoop ==
    /\ Init
    /\ [][NextLoop]_vars
    /\ WF_vars(LoopThread)
    /\ WF_vars(DisableAutoDiscoveryJoin("main"))

(***************************************************************************)
(* SpecShutdown: the main thread adds two directories, starts their        *)
(* watchers and calls stop_all; a join or the closing UPDATE of a watcher  *)
(* job can raise.                                                          *)
(***************************************************************************)
ShutdownCall(c) ==
    \/ AddDirectoryCheck(c, ScanPaths)
    \/ AddDirectoryAppend(c)
    \/ StartAll(c)
    \/ StartWatcherJob(c)
    \/ SetWatcherJob(c)
    \/ ThreadStart(c)
    \/ StopAll(c)
    \/ StopAllJoin(c)
    \/ StopAllJoinInterrupted(c)
    \/ ClearWatcherJobUpdate(c)
    \/ ClearWatcherJobRaises(c)

NextShutdown ==
    \/ ShutdownCall("main")
    \/ \E w \in WatcherIds : WatcherRun(w)

SpecShutdown == Init /\ [][NextShutdown]_vars

(***************************************************************************)
(* SpecConn: the manager's thread and two watcher threads write on the     *)
(* shared connection.                                                      *)
(***************************************************************************)
ConnWrite(t) ==
    \/ LockEnter(t)
    \/ TxnBegin(t)
    \/ TxnCommitEvent(t)
    \/ TxnCommitJob(t)
    \/ LockExit(t)

NextConn == \E t \in ConnTasks : ConnWrite(t)

SpecConn == Init /\ [][NextConn]_vars

(***************************************************************************)
(* SpecRetry: _execute_with_retry calls whose conn.execute succeeds or     *)
(* raises any of four errors in every round.                               *)
(***************************************************************************)
NextRetry ==
    \/ ExecuteCall
    \/ ExecuteAttempt
    \/ RetrySleep

SpecRetry == Init /\ [][NextRetry]_vars

(***************************************************************************)
(* SpecMount: one DiskWatcher is built, the clock moves, events arrive and *)
(* refreshes are asked for; every probe can raise or give any metadata.    *)
(***************************************************************************)
NextMount ==
    \/ WatcherNew
    \/ MonotonicAdvance
    \/ WatcherLogEvent
    \/ RefreshCall

SpecMount == Init /\ [][NextMount]_vars

(***************************************************************************)
(* SpecJobs: job rows are created, updated, touched and finished through   *)
(* JobHandle with every choice of arguments, each call at a later time.    *)
(***************************************************************************)
NextJobs ==
    \/ TableCreate
    \/ TableUpdate
    \/ TableHeartbeat
    \/ TableFinish

SpecJobs == Init /\ [][NextJobs]_vars

(***************************************************************************)
(* SpecLocks: the main thread, the discovery thread and a watcher thread   *)
(* go through the locked sections of their operations in any order.        *)
(***************************************************************************)
NextLocks ==
    \E t \in LockTasks :
        \/ LockBegin(t)
        \/ LockAcquire(t)
        \/ LockRelease(t)

SpecLocks == Init /\ [][NextLocks]_vars

(***************************************************************************)
(* SpecStream: `diskwatcher stream` polls the catalog while the watchers   *)
(* of two volumes append events; its loop never stops polling.             *)
(***************************************************************************)
NextStream ==
    \/ AppendWatcherEvent
    \/ StreamStart
    \/ StreamPoll

SpecStream == Init /\ [][NextStream]_vars /\ WF_vars(StreamPoll)

(***************************************************************************)
(* Claims about the catalog                                                *)
(***************************************************************************)
EventRows(v, kinds) ==
    {i \in 1..Len(events) : events[i].volume_id = v /\ events[i].event_type \in kinds}

\* C1 (event conservation): after any sequence of log_event calls, every
\* volume that has events rows has a volumes row whose event_count is the
\* number of its events rows and whose created/modified/deleted counters
\* are the numbers of its events of those kinds.
C1_EventConservation ==
    \A v \in VolumeIds :
        (EventRows(v, EventTypes) # {} \/ v \in DOMAIN volumes) =>
            /\ v \in DOMAIN volumes
            /\ volumes[v].event_count = Cardinality(EventRows(v, EventTypes))
            /\ volumes[v].created_count = Cardinality(EventRows(v, {"created"}))
            /\ volumes[v].modified_count = Cardinality(EventRows(v, {"modified"}))
            /\ volumes[v].deleted_count = Cardinality(EventRows(v, {"deleted"}))

\* C2 (AppendEvent is all-or-nothing): when the volume or the file
\* derivation raises, the events row is not inserted and the caller sees
\* the error.
C2_AppendEventAtomic ==
    (last.op = "log_event" /\ last.swallowed) => (~last.inserted /\ last.raised)

KeyRows(v, p) ==
    {i \in 1..Len(events) : events[i].volume_id = v /\ events[i].path = p}

\* C3 (file-state monotonicity): for every files row, last_event_timestamp
\* is the maximum timestamp over the events rows of its key and
\* last_event_type is the kind of an event carrying that timestamp.
C3_FileStateMonotonic ==
    \A k \in DOMAIN files :
        \E i \in KeyRows(k[1], k[2]) :
            /\ \A j \in KeyRows(k[1], k[2]) : events[j].timestamp <= events[i].timestamp
            /\ files[k].last_event_timestamp = events[i].timestamp
            /\ files[k].last_event_type = events[i].event_type

TombstoneRow(r) ==
    r.is_deleted = 1 /\ r.size_bytes = NoTime /\ r.modified_time = NoTime

\* C4 as claimed (tombstone correctness): after a 'deleted' event the files
\* row of its key is a tombstone, and after a 'created' or 'modified' event
\* the row has is_deleted = 0 and the size and mtime of the file.
C4_TombstoneAsClaimed ==
    LET k == <<last.volume_id, last.path>>
    IN  (last.op = "log_event" /\ last.inserted /\ k \in DOMAIN files) =>
            IF last.event_type = "deleted"
            THEN TombstoneRow(files[k])
            ELSE files[k].is_deleted = 0 /\ files[k].size_bytes # NoTime
                 /\ files[k].modified_time # NoTime

\* C4 as amended (tombstone correctness): a files row whose last recorded
\* event is 'deleted' is a tombstone and every other row is live with a
\* size and an mtime; a 'deleted' event whose UPDATE runs turns the row of
\* its key into a tombstone stamped with the event; a 'created' or
\* 'modified' event whose stat finds a regular file, and whose upsert runs,
\* makes the row live with the size and mtime of that stat; every other
\* event leaves the files table, tombstones included, as it was.
C4_Tombstone ==
    /\ [](\A k \in DOMAIN files :
            IF files[k].last_event_type = "deleted"
            THEN TombstoneRow(files[k])
            ELSE files[k].is_deleted = 0 /\ files[k].size_bytes # NoTime
                 /\ files[k].modified_time # NoTime)
    /\ [][events' # events =>
            LET c == last'
                k == <<c.volume_id, c.path>>
            IN  IF c.fault = "file" \/ ~FileStatementRuns(c.event_type, c.path, c.st)
                   \/ (c.event_type = "deleted" /\ k \notin DOMAIN files)
                THEN files' = files
                ELSE /\ k \in DOMAIN files'
                     /\ files'[k].last_event_timestamp = c.timestamp
                     /\ files'[k].last_event_type = c.event_type
                     /\ IF c.event_type = "deleted"
                        THEN TombstoneRow(files'[k])
                        ELSE /\ files'[k].is_deleted = 0
                             /\ files'[k].size_bytes = c.st.size
                             /\ files'[k].modified_time = c.st.mtime]_vars

\* C4 witness: a created event, a deleted event and then a modified event
\* on one key, after which the row is live again with the new size.
C4_Witness ==
    /\ Len(events) = 3
    /\ events[1].event_type = "created"
    /\ events[2].event_type = "deleted"
    /\ events[3].event_type = "modified"
    /\ <<"vol-1", PathA>> \in DOMAIN files
    /\ files[<<"vol-1", PathA>>].is_deleted = 0
    /\ files[<<"vol-1", PathA>>].size_bytes = 3
    /\ files[<<"vol-1", PathA>>].last_event_type = "modified"

OldVolumeRow(v) ==
    IF v \in DOMAIN volumes THEN volumes[v] ELSE NewVolumeRow(DirectoryOf(v))

\* The condition of the capacity refresh rule, for the event of `call`
\* arriving at the row `old`.
RefreshDue(old, call) ==
    \/ old.usage_refreshed_at = NoTime
    \/ call.timestamp - old.usage_refreshed_at >= VOLUME_USAGE_REFRESH_SECONDS
    \/ old.events_since_refresh + 1 >= VOLUME_USAGE_REFRESH_EVENT_THRESHOLD

\* C5 as claimed (capacity refresh policy): the first event of a fresh
\* volume populates the usage fields, stamps usage_refreshed_at with its
\* timestamp and leaves events_since_refresh at 0; a later event does the
\* same if and only if 300 seconds have elapsed since usage_refreshed_at or
\* events_since_refresh, counting this event, has reached 100.
C5_RefreshAsClaimed ==
    [][events' # events =>
        LET c == last'
            v == c.volume_id
            old == OldVolumeRow(v)
            due == \/ v \notin DOMAIN volumes
                   \/ c.timestamp - old.usage_refreshed_at >= VOLUME_USAGE_REFRESH_SECONDS
                   \/ old.events_since_refresh + 1 >= VOLUME_USAGE_REFRESH_EVENT_THRESHOLD
        IN  (v \notin DOMAIN volumes \/ old.usage_refreshed_at # NoTime) =>
            /\ v \in DOMAIN volumes'
            /\ IF due
               THEN /\ volumes'[v].usage_refreshed_at = c.timestamp
                    /\ volumes'[v].events_since_refresh = 0
                    /\ volumes'[v].usage_total_bytes # NoTime
               ELSE volumes'[v].usage_refreshed_at = old.usage_refreshed_at]_vars

\* C5 as amended (capacity refresh policy): an event refreshes the usage
\* of its volume (usage fields from the capacity read, usage_refreshed_at
\* set to the event's timestamp, events_since_refresh reset to 0) if and
\* only if usage_refreshed_at is null, or 300 seconds have elapsed since
\* it, or events_since_refresh counting this event has reached 100, and
\* the capacity read succeeds and the volume statements run; otherwise the
\* usage fields keep their values and events_since_refresh of a counted
\* event grows by one.
C5_RefreshPolicy ==
    [][events' # events =>
        LET c == last'
            v == c.volume_id
            old == OldVolumeRow(v)
        IN  IF c.fault = "volume" THEN volumes' = volumes
            ELSE /\ v \in DOMAIN volumes'
                 /\ IF RefreshDue(old, c) /\ c.usage # NoTime /\ c.fault # "usage"
                    THEN /\ volumes'[v].usage_refreshed_at = c.timestamp
                         /\ volumes'[v].events_since_refresh = 0
                         /\ volumes'[v].usage_total_bytes = c.usage
                    ELSE /\ volumes'[v].usage_refreshed_at = old.usage_refreshed_at
                         /\ volumes'[v].usage_total_bytes = old.usage_total_bytes
                         /\ volumes'[v].events_since_refresh
                                = old.events_since_refresh + 1]_vars

\* C5 witness: the 101st event of a volume arrives 150 seconds after the
\* last refresh and refreshes because of the event threshold.
C5_Witness ==
    /\ "vol-1" \in DOMAIN volumes
    /\ volumes["vol-1"].event_count = 101
    /\ volumes["vol-1"].usage_refreshed_at = 150
    /\ volumes["vol-1"].events_since_refresh = 0
    /\ last.op = "log_event" /\ last.timestamp = 150 /\ last.fault = "none"

IdentityColumns ==
    {"mount_device", "mount_point", "mount_uuid", "mount_label",
     "mount_volume_id", "lsblk_serial", "lsblk_model"}

\* The value the metadata carries for an identity column.
Incoming(meta, column) ==
    CASE column = "mount_device" -> Get(meta, "device")
      [] column = "mount_point" -> Get(meta, "mount_point")
      [] column = "mount_uuid" -> Get(meta, "uuid")
      [] column = "mount_label" -> Get(meta, "label")
      [] column = "mount_volume_id" -> Get(meta, "volume_id")
      [] column = "lsblk_serial" -> Get(LsblkPayload(meta), "SERIAL")
      [] column = "lsblk_model" -> Get(LsblkPayload(meta), "MODEL")

\* C6 (identity sticky update): an event whose metadata lacks the key of
\* an identity column, or carries a null or empty value for it, leaves the
\* column unchanged, and a non-null column changes only to a non-null
\* incoming value.
C6_IdentitySticky ==
    [][events' # events =>
        LET c == last'
            v == c.volume_id
            old == OldVolumeRow(v)
        IN  \A column \in IdentityColumns :
                /\ ~Truthy(Incoming(c.meta, column)) =>
                        volumes'[v][column] = old[column]
                /\ (old[column] # NULL /\ volumes'[v][column] # old[column]) =>
                        volumes'[v][column] = Incoming(c.meta, column)]_vars

(***************************************************************************)
(* Claims about jobs and the watcher set                                   *)
(***************************************************************************)
\* C7 (job terminality): once Complete or Fail has been applied to a job,
\* a further Update call on it leaves the status of its row unchanged
\* (no call of the code raises JobStateError).
C7_JobTerminality ==
    [][\A j \in 1..Len(jobs) :
          (jobs[j].completed_at # NULL /\ jobcall'.op = "update"
           /\ jobcall'.job_id = j)
              => jobs'[j].status = jobs[j].status]_vars

TerminalStatuses ==
    {"complete", "failed", "interrupted", "stopped", "cancelled", "removed",
     "stale"}

\* C8 (completed_at and terminal status): in every reachable state a job
\* row has a non-null completed_at if and only if its status is terminal.
C8_CompletedIffTerminal ==
    \A j \in 1..Len(jobs) :
        (jobs[j].completed_at # NULL) <=> (jobs[j].status \in TerminalStatuses)

\* C9 (watcher dedupe): when add_directory is called twice in a row by one
\* thread with paths that denote the same directory, the second call
\* returns the handle the first call returned and leaves the size of the
\* watcher set as it was.
C9_WatcherDedupe ==
    \A c \in Callers :
        (/\ caller[c].pc = "idle"
         /\ caller[c].op = "add_directory"
         /\ caller[c].prev.op = "add_directory"
         /\ caller[c].prev.arg.target = caller[c].arg.target)
            => /\ caller[c].ret = caller[c].prev.ret
               /\ Len(threads) = caller[c].before

\* C9 witness: the directory was added under its direct spelling and then
\* through a link, and the second call returned the first call's thread.
C9_Witness ==
    /\ caller["main"].pc = "idle"
    /\ caller["main"].op = "add_directory"
    /\ caller["main"].prev.op = "add_directory"
    /\ caller["main"].prev.arg.via = "direct"
    /\ caller["main"].arg.via = "link"
    /\ caller["main"].prev.arg.target = caller["main"].arg.target
    /\ caller["main"].ret = caller["main"].prev.ret
    /\ caller["main"].ret \in WatcherIds
    /\ Len(threads) = 1

\* C10 (concurrent dedupe): under every interleaving of add_directory
\* calls the watcher set never holds two threads on one resolved path, and
\* the calls for one path return the same registered thread.
C10_ConcurrentDedupe ==
    /\ \A i, j \in 1..Len(threads) :
            i # j => watchers[threads[i]].path # watchers[threads[j]].path
    /\ \A c, d \in Callers :
            (/\ caller[c].pc = "idle" /\ caller[c].op = "add_directory"
             /\ caller[d].pc = "idle" /\ caller[d].op = "add_directory"
             /\ caller[c].path = caller[d].path
             /\ \E i \in 1..Len(threads) : threads[i] = caller[c].ret
             /\ \E i \in 1..Len(threads) : threads[i] = caller[d].ret)
                => caller[c].ret = caller[d].ret

\* The jobs of one type on one path that are active: not in a terminal
\* status and never completed.
ActiveJobs(job_type, path) ==
    {j \in 1..Len(jobs) : /\ jobs[j].job_type = job_type
                          /\ jobs[j].path = path
                          /\ jobs[j].status \notin TerminalStatuses
                          /\ jobs[j].completed_at = NULL}

\* C11 (one active job per watcher): under every interleaving of start_all
\* on the main thread with the discovery thread's start_thread, the
\* watchers on a path never have more active watcher jobs, nor more active
\* initial_scan jobs, than there are watchers on that path.
C11_OneActiveJob ==
    \A w \in WatcherIds : \A job_type \in {"watcher", "initial_scan"} :
        Cardinality(ActiveJobs(job_type, watchers[w].path))
            <= Cardinality({v \in WatcherIds : watchers[v].path = watchers[w].path})

(***************************************************************************)
(* Claims about run_initial_scans                                          *)
(***************************************************************************)
\* C12 (one scan job per target): a run_initial_scans call has created
\* exactly one initial_scan job per targeted watcher, in serial mode, in
\* parallel mode and when parallel mode falls back to serial, and once the
\* call is over every job it created has had its scan executed (it is no
\* longer queued).
C12_OneScanJobPerTarget ==
    /\ Cardinality(scans.created) = Len(scans.targets)
    /\ scans.outcome = "returned" =>
            \A j \in scans.created : jobs[j].status # "queued"

ScanTerminalStatuses == {"complete", "interrupted", "failed"}

\* C13 (scan job lifecycle): once run_initial_scans has returned or
\* raised, none of the jobs its scanning activation queued is still queued
\* or running, each is complete, interrupted or failed, and a returned
\* results list holds exactly one record per target.
C13_ScanJobsTerminal ==
    scans.outcome \in {"returned", "raised"} =>
        /\ \A k \in 1..Len(scans.scan_jobs) :
                jobs[scans.scan_jobs[k]].status \in ScanTerminalStatuses
        /\ scans.outcome = "returned" =>
                /\ Len(scans.results) = Len(scans.targets)
                /\ \A k \in 1..Len(scans.targets) :
                        Cardinality({r \in 1..Len(scans.results) :
                            scans.results[r].thread = scans.targets[k]}) = 1

\* C14 (scan failure isolation): when the scan of one target raised, in
\* serial and in parallel mode alike, then once the call is over the job of
\* that target is failed with the exception text, the call has returned a
\* results list with a failed record for that target, and the job of every
\* other target is complete, interrupted or failed.
C14_ScanFailureIsolated ==
    \A k \in ScanTargets :
        (scans.outcome # "none" /\ jobs[scanner[k].job_tracker].status = "failed") =>
            /\ jobs[scanner[k].job_tracker].error_message = "insert"
            /\ scans.outcome = "returned"
            /\ \E r \in 1..Len(scans.results) :
                    scans.results[r] = [thread |-> scanner[k].thread, status |-> "failed"]
            /\ \A j \in ScanTargets :
                    jobs[scanner[j].job_tracker].status \in ScanTerminalStatuses

\* C15 (exclude patterns): no events row is ever appended for a path that
\* matches one of the watcher's exclude patterns, neither by a scan run in
\* the caller or in a worker process nor by a live notification.
C15_ExcludesHonoured ==
    \A i \in 1..Len(events) : ~IsExcluded(events[i].path, ExcludePatterns)

\* C16 (scan cancellation): when the stop signal of a watcher is set while
\* a scan that run_initial_scans started for it stands before a directory,
\* the scan visits no further directory: its next step ends it with status
\* 'interrupted', the job recording that status.
C16_ScanCancellation ==
    [][\A k \in ScanTargets :
        (/\ scanner[k].pc = "walk"
         /\ scanner[k].file = 0
         /\ scanner[k].dir <= Len(Walk)
         /\ watchers[scanner[k].thread].stop_event
         /\ scanner'[k] # scanner[k])
        => /\ scanner'[k].pc = "done"
           /\ scanner'[k].status = "interrupted"
           /\ jobs'[scanner[k].job_tracker].status = "interrupted"]_vars

(***************************************************************************)
(* Claims about remove_directory, stop_all and the live watcher            *)
(***************************************************************************)
\* The positions of the watcher set whose thread watches `path`.
Watching(ths, path) == {i \in 1..Len(ths) : watchers[ths[i]].path = path}

\* No two watcher threads were built on the same path.
DistinctPaths ==
    \A v, w \in WatcherIds : v # w => watchers[v].path # watchers[w].path

\* C17 (remove_directory): when remove_directory(p) returns for a watched
\* path (no path being watched twice) it returns true, no watcher on the
\* resolved path is in the watcher set, the removed watcher's thread is not
\* alive, and the watcher job it held is 'removed' with a completion stamp;
\* for a path that is not watched it returns false and changes nothing.
C17_RemoveDirectory ==
    [][\A c \in Callers :
        /\ (/\ caller[c].op = "remove_directory"
            /\ caller[c].pc \notin {"idle", "off"}
            /\ caller'[c].pc = "idle"
            /\ DistinctPaths)
           => LET t == caller[c].thread
                  job == watchers[t].watch_job
              IN  /\ ~caller'[c].raised
                  /\ caller'[c].ret = 1
                  /\ Watching(threads', caller[c].path) = {}
                  /\ watchers'[t].state # "alive"
                  /\ watchers'[t].watch_job = None
                  /\ job # None =>
                        /\ jobs'[job].status = "removed"
                        /\ jobs'[job].completed_at # NULL
        /\ (/\ caller[c].pc = "idle"
            /\ caller'[c].pc = "idle"
            /\ caller'[c] # caller[c]
            /\ caller'[c].op = "remove_directory")
           => /\ caller'[c].ret = 0
              /\ Watching(threads, caller'[c].path) = {}
              /\ UNCHANGED <<threads, watchers, jobs, running>>]_vars

\* The step is a return of stop_all to caller c.
StopAllReturns(c) ==
    /\ caller'[c].op = "stop_all"
    /\ caller'[c].pc = "idle"
    /\ ~caller'[c].raised
    /\ \/ caller[c].op = "stop_all" /\ caller[c].pc \notin {"idle", "off"}
       \/ caller[c].pc = "idle" /\ caller'[c] # caller[c]

\* Every DiskWatcherThread built so far is still in the watcher set.
NoneRemoved == \A w \in WatcherIds : \E i \in 1..Len(threads) : threads[i] = w

\* C18 (stop_all): when stop_all returns (no watcher having been removed
\* before), the auto-discovery thread has exited and is forgotten, every
\* watcher thread has its stop event set and is not alive, every watcher
\* job in the catalog is 'stopped' with a completion stamp, and the
\* supervisor is not marked running.
C18_StopAll ==
    [][\A c \in Callers :
        (StopAllReturns(c) /\ NoneRemoved) =>
            /\ discovery' = "none"
            /\ \A i \in 1..Len(threads') :
                    /\ watchers'[threads'[i]].stop_event
                    /\ watchers'[threads'[i]].state # "alive"
                    /\ watchers'[threads'[i]].watch_job = None
            /\ \A j \in 1..Len(jobs') :
                    jobs'[j].job_type = "watcher" =>
                        /\ jobs'[j].status = "stopped"
                        /\ jobs'[j].completed_at # NULL
            /\ ~running']_vars

\* The host answered ENOSPC to the inotify observer and let the polling
\* observer start.
Exhausted == [kernel |-> "ENOSPC", polling |-> "ok"]

\* C19 (backend fallback): when the inotify observer of a watcher raises
\* OSError with errno ENOSPC and the polling observer starts, start() goes
\* on into its loop on the polling backend and the watcher job is set to
\* 'running'; while that backend runs the job is not failed and run() is
\* not in its except clause; and a notification for a path that is not
\* excluded, handled on the polling backend with no INSERT failure,
\* appends its events row.
C19_BackendFallback ==
    [][\A w \in WatcherIds :
        /\ (watchers[w].pc = "start" /\ watchers'[w].host = Exhausted)
           => /\ watchers'[w].pc = "loop"
              /\ watchers'[w].backend = "polling"
              /\ watchers[w].watch_job # None =>
                    jobs'[watchers[w].watch_job].status = "running"
        /\ watchers'[w].host = Exhausted
           => /\ watchers'[w].pc = "loop"
              /\ watchers'[w].job_tracker # None =>
                    jobs'[watchers'[w].job_tracker].status # "failed"
        /\ (/\ notified' # notified
            /\ notified'.watcher = w
            /\ watchers[w].host = Exhausted
            /\ ~notified'.excluded
            /\ ~notified'.raised)
           => /\ notified'.backend = "polling"
              /\ events' = Append(events,
                    [timestamp |-> 0, event_type |-> notified'.event_type,
                     path |-> notified'.path,
                     volume_id |-> VolumeOf(watchers[w].path)])]_vars

\* A watcher that fell back to polling after ENOSPC has a running job and
\* has appended the event of a notification.
C19_Witness ==
    /\ notified.op = "notify"
    /\ notified.backend = "polling"
    /\ ~notified.excluded /\ ~notified.raised
    /\ watchers[notified.watcher].host = Exhausted
    /\ watchers[notified.watcher].job_tracker # None
    /\ jobs[watchers[notified.watcher].job_tracker].status = "running"
    /\ Len(events) > 0
    /\ events[Len(events)].path = notified.path

\* C20 (append failure in a live notification): a failure of the catalog's
\* log_event while a watcher handles a created, modified or deleted
\* notification is swallowed by the watcher: no notification handler has
\* let an exception out, so the observer that called it goes on.
C20_AppendFailureSwallowed ==
    notified.op = "notify" => ~notified.raised

(***************************************************************************)
(* Claims about supervisor startup, discovery and scan counts              *)
(***************************************************************************)
\* The process that created job j has left this host's process table, or
\* runs on another host.
OwnerGone(j) ==
    \/ startup.owners[j].pid \notin startup.alive
    \/ startup.owners[j].host # Hostname

C22_DiscoveryIdempotent ==
    [][(sync.passes >= 1 /\ sync'.mounted = sync.mounted)
        => /\ threads' = threads
           /\ Len(jobs') = Len(jobs)]_vars

\* The directories of the tree that the exclude patterns of the manager let
\* through, and the files in them that they let through.
WalkDirs == {d \in 1..Len(Walk) : ~IsExcluded(Walk[d].root, ExcludePatterns)}

WalkFiles ==
    {df \in WalkDirs \X (1..MaxScanEvents) :
        /\ df[2] <= Len(Walk[df[1]].files)
        /\ ~IsExcluded(Walk[df[1]].files[df[2]], ExcludePatterns)}

\* The 'existing' events of a volume in the events table `evs`.
ExistingEvents(evs, volume_id) ==
    {i \in 1..Len(evs) : /\ evs[i].event_type = "existing"
                         /\ evs[i].volume_id = volume_id}

\* C23: a completed initial scan reports files_scanned equal to the number
\* of 'existing' events it appended, which is the number of non-excluded
\* files under the root, and directories_seen equal to the number of
\* non-excluded directories traversed, the root included; after every
\* 500th file the job's progress holds the cumulative counts.
C23_ScanCounts ==
    [][\A k \in 1..Len(scanner') :
        LET sc == scanner'[k]
            volume_id == VolumeOf(watchers'[sc.thread].path)
        IN  /\ (sc.status = "complete" /\ sc.pc \in {"done", "result", "collected"})
                => /\ sc.files_scanned = Cardinality(ExistingEvents(events', volume_id))
                   /\ sc.files_scanned = Cardinality(WalkFiles)
                   /\ sc.directories_seen = Cardinality(WalkDirs)
            /\ (/\ k <= Len(scanner)
                /\ sc.files_scanned # scanner[k].files_scanned
                /\ sc.files_scanned % PROGRESS_EVERY = 0)
                => jobs'[sc.job_tracker].progress = ScanStats(sc, "running")]_vars

(***************************************************************************)
(* Claims about readers and the watcher job                                *)
(***************************************************************************)
\* What the reader has echoed is the rowids 1..last_rowid, each once, in
\* increasing order, all of them committed rows.
EchoedInOrder ==
    /\ Len(reader.echoed) = reader.last_rowid
    /\ reader.last_rowid <= Len(events)
    /\ \A i \in 1..Len(reader.echoed) : reader.echoed[i] = i

\* C24: a reader that polls query_events_since(cursor, limit) and moves the
\* cursor to the rowid of the last row returned receives every committed
\* event exactly once and in strictly increasing rowid order, however its
\* polls interleave with the appends of several watchers.
C24_StreamByOrdinal ==
    /\ []EchoedInOrder
    /\ \A i \in 1..MaxEvents :
        (reader.pc = "polling" /\ Len(events) >= i) ~> (Len(reader.echoed) >= i)

\* The reader got events of both volumes, one row per poll, and has caught
\* up with the table.
C24_Witness ==
    /\ reader.limit = 1
    /\ reader.last_rowid = Len(events)
    /\ \E i, j \in 1..Len(reader.echoed) :
        events[reader.echoed[i]].volume_id # events[reader.echoed[j]].volume_id

\* C25: when the live backend fails with an error other than ENOSPC (or
\* the polling fallback fails too), run's except clause leaves the watcher
\* job 'failed' with the error message and completed_at set, and a failed
\* watcher job stays 'failed' with that message from then on, supervisor
\* shutdown included.
C25_BackendFailure ==
    [][/\ \A w \in WatcherIds :
            (/\ watchers[w].pc = "except" /\ watchers'[w].pc = "end"
             /\ watchers[w].watch_job # None)
            => LET job == jobs'[watchers[w].watch_job]
               IN  /\ job.status = "failed"
                   /\ job.error_message # NULL
                   /\ job.completed_at # NULL
       /\ \A j \in 1..Len(jobs) :
            (jobs[j].job_type = "watcher" /\ jobs[j].status = "failed")
            => /\ jobs'[j].status = "failed"
               /\ jobs'[j].error_message = jobs[j].error_message
               /\ jobs'[j].completed_at # NULL]_vars

\* C26: when stop_all is left by an exception raised while stopping,
\* joining or closing the job of one watcher, the watcher job of every
\* other watcher is in a terminal status.
C26_ShutdownIsolated ==
    [][\A c \in Callers :
        (/\ caller[c].op = "stop_all" /\ caller[c].pc \notin {"idle", "off"}
         /\ caller'[c].pc = "idle" /\ caller'[c].raised)
        => \A j \in 1..Len(jobs') :
            (/\ jobs'[j].job_type = "watcher"
             /\ jobs'[j].path # watchers[caller[c].thread].path)
            => jobs'[j].status \in TerminalStatuses]_vars

\* The place of a status on the way of a watcher job; the terminal
\* statuses share the last place.
WatcherRank(status) ==
    CASE status = "starting" -> 0
      [] status = "running" -> 1
      [] status = "stopping" -> 2
      [] OTHER -> 3

\* C27: a watcher job goes starting -> running -> stopping -> stopped, with
\* 'failed' and 'removed' as the only other terminal statuses; no step
\* takes it back to an earlier status, and none makes a terminal job
\* running or stopping.
C27_WatcherJobOrder ==
    [][\A j \in 1..Len(jobs) :
        jobs[j].job_type = "watcher"
        => /\ jobs'[j].status \in {"starting", "running", "stopping",
                                    "stopped", "failed", "removed"}
           /\ WatcherRank(jobs'[j].status) >= WatcherRank(jobs[j].status)]_vars

\* C28: every job row has a single writer: all the writes that follow its
\* creation come from one task, never from both the supervisor thread and
\* a watcher thread or a scan worker process.
C28_SingleWriter ==
    \A p, q \in writers : p[1] = q[1] => p[2] = q[2]

\* C29: among the watchers of one supervisor and the job handles it
\* creates, at most one thread at a time is inside a write transaction
\* (an event append or a job insert / update) on the shared connection.
C29_WriterMutex == Cardinality(conn.txn) <= 1

\* A watcher is inside a write transaction after events and a job row were
\* committed by other threads, while another watcher thread stands before
\* the lock.
C29_Witness ==
    /\ conn.txn = {"watcher-2"}
    /\ conn.pc["watcher-1"] = "idle" /\ conn.pc["main"] = "idle"
    /\ Len(jobs) >= 1
    /\ \E i \in 1..Len(events) : events[i].volume_id = "vol-1"

\* The message of the error holds 'locked' or 'busy'.
Transient(exc) == "locked" \in exc.words \/ "busy" \in exc.words

\* C30: a write statement is attempted at most three times; a further
\* attempt follows only an error whose message holds 'locked' or 'busy',
\* after a wait of 50 ms and then of 100 ms; any other error, and a
\* transient error in the third attempt, is raised, and a transient error
\* of an earlier attempt is not; a statement that succeeds takes effect
\* exactly once, one that is raised not at all.
C30_WriteRetry ==
    LET attempts == Len(retry.seen) + retry.applied
        n == Len(retry.seen)
    IN  /\ attempts <= 3
        /\ retry.applied <= 1
        /\ retry.waits \in {<<>>, <<50>>, <<50, 100>>}
        /\ Len(retry.waits) <= n
        /\ \A i \in 1..Len(retry.waits) : Transient(retry.seen[i])
        /\ retry.pc = "execute" => Len(retry.waits) = n
        /\ retry.outcome = "returned" => retry.applied = 1
        /\ retry.outcome = "raised"
           => /\ retry.applied = 0
              /\ n >= 1
              /\ ~Transient(retry.seen[n]) \/ n = 3

\* A statement that was locked, then busy, took effect in the third
\* attempt, after both waits.
C30_Witness ==
    /\ retry.outcome = "returned"
    /\ Len(retry.seen) = 2
    /\ retry.seen[1] # retry.seen[2]
    /\ retry.waits = <<50, 100>>

(***************************************************************************)
(* Claims about mount metadata, discovery, job reads and locks             *)
(***************************************************************************)
\* C31: once the cached mount metadata of a watcher is complete, no later
\* event and no later refresh call probes the mount again: the number of
\* probes and the cache stay as they are, and every later log_event hands
\* the cached metadata on.
C31_CompleteMetadataKept ==
    [][MetadataComplete(mount.metadata)
        => /\ mount'.probes = mount.probes
           /\ mount'.metadata = mount.metadata
           /\ mount'.last = "event" => mount'.payload = mount.metadata]_vars

\* A forced refresh and an event came after the metadata was complete, at
\* a later time.
C31_Witness ==
    /\ MetadataComplete(mount.metadata)
    /\ mount.probes = 2
    /\ mount.calls >= 3
    /\ mount.now > mount.probed_at
    /\ mount.last = "event"
    /\ mount.payload = mount.metadata

\* The wait the k-th incomplete or failed probe is followed by.
BackoffWait(k) == Min(300 * (2 ^ (k - 1)), 3600)

\* C32: while the mount metadata is not complete (the probe having raised
\* or returned nothing included), an event before the scheduled time does
\* not probe, and after the k-th incomplete or failed probe the next probe
\* is scheduled min(300 * 2^(k-1), 3600) seconds later.
C32_ReprobeBackoff ==
    [][/\ (/\ mount.pc = "ready" /\ mount'.last = "event"
           /\ mount'.calls = mount.calls + 1
           /\ ~MetadataComplete(mount.metadata)
           /\ mount.now < mount.next)
          => mount'.probes = mount.probes
       /\ (mount'.failed >= 1 /\ ~MetadataComplete(mount'.metadata))
          => mount'.next = mount'.probed_at + BackoffWait(mount'.failed)]_vars

\* The watchers a discovery thread may scan and those it may remove.
Scanned(rec) == {rec.new_threads[i] : i \in 1..Len(rec.new_threads)}

\* C33: auto-discovery removes only what it added: remove_directory is
\* called in a cycle for paths the loop added earlier that are no longer
\* discovered, no watcher added directly through add_directory is removed
\* by it, and the initial scans of a cycle are submitted only for the
\* watchers added in that cycle.
C33_RemovesOnlyItsOwn ==
    [][/\ sync'.removed \subseteq sync'.added
       /\ sync'.removed # sync.removed
            => \E t \in sync'.removed \ sync.removed :
                    watchers[t].path \in sync.auto_paths \ sync.discovered
       /\ (sync.pc = "scan" /\ sync'.pc # "scan")
            => Scanned(sync) \subseteq sync.fresh]_vars

\* The paths of the registered watchers that add_directory built for a
\* discovery thread.
AutoRegistered ==
    {watchers[threads[i]].path :
        i \in {j \in 1..Len(threads) : threads[j] \in sync.added}}

\* C39: at the end of every discovery cycle auto_paths is the set of paths
\* of the registered watchers that auto-discovery added, also after
\* another caller's remove_directory and after auto-discovery was enabled
\* anew.
C39_TrackedSetExact ==
    [][(sync.pc # "idle" /\ sync'.pc = "idle")
        => sync'.auto_paths = AutoRegistered']_vars

\* The watchers no longer registered whose path the last remove_directory
\* of a caller, which returned True, was given.
Deregistered ==
    {t \in WatcherIds :
        /\ \A i \in 1..Len(threads) : threads[i] # t
        /\ \E c \in Callers :
            /\ caller[c].op = "remove_directory"
            /\ caller[c].pc = "idle"
            /\ caller[c].ret = 1
            /\ caller[c].path = watchers[t].path}

\* C38: a watcher deregistered by remove_directory is never started
\* afterwards: whatever the interleaving with start_all and start_thread,
\* no watcher job is created for it and its thread is not started once
\* remove_directory has returned for it.
C38_NoStartAfterRemove ==
    [][\A t \in Deregistered :
        /\ \A c \in Callers :
                (caller[c].pc = "start_job" /\ caller[c].thread = t)
                    => Len(jobs') = Len(jobs)
        /\ watchers'[t].state = "alive" => watchers[t].state = "alive"]_vars

\* C34: an exception raised inside one discovery cycle does not end the
\* loop, the next cycle still runs; once the stop signal is set the loop
\* starts no new cycle and exits at its next wake, so that the join in
\* disable_auto_discovery / stop_all returns.
C34_LoopLiveness ==
    /\ [][/\ (sync.pc = "scan" /\ sync'.pc = "idle" /\ discovery # "none")
                => (sync'.loop = "wait" /\ discovery' = discovery)
          /\ (discovery = "stopping" /\ sync.loop # "scan")
                => sync'.loop # "scan"]_vars
    /\ (discovery = "running" /\ sync.loop = "wait")
            ~> (sync.loop = "scan" \/ discovery # "running")
    /\ (discovery = "stopping") ~> (discovery = "exited")
    /\ (caller["main"].pc = "stop_discovery")
            ~> (caller["main"].op = "stop_all" /\ caller["main"].pc # "stop_discovery"
                    /\ discovery = "none")

\* stop_all has returned from its join after a cycle raised: a scan job of
\* the serial loop failed.
C34_Witness ==
    /\ discovery = "none"
    /\ caller["main"].op = "stop_all"
    /\ caller["main"].pc = "idle"
    /\ sync.loop = "test"
    /\ sync.db_path = NULL
    /\ \E j \in 1..Len(jobs) : jobs[j].status = "failed"

\* The columns of a row other than status, progress, error_message and
\* the two time columns an update can write.
Fixed(row) == <<row.job_type, row.started_at>>

\* C35: JobHandle.heartbeat() without progress changes only updated_at;
\* update and heartbeat change, besides updated_at, only the columns whose
\* argument was given and never set completed_at; no other row is touched.
C35_UpdateFrame ==
    [][table'.last.op \in {"update", "heartbeat"} /\ table' # table
        => LET call == table'.last
               j == call.job_id
               old == table.rows[j]
               new == table'.rows[j]
           IN  /\ Len(table'.rows) = Len(table.rows)
               /\ \A i \in 1..Len(table.rows) : i # j => table'.rows[i] = table.rows[i]
               /\ new.completed_at = old.completed_at
               /\ Fixed(new) = Fixed(old)
               /\ new.status = (IF call.status = NULL THEN old.status ELSE call.status)
               /\ new.progress = (IF call.progress = NoProgress THEN old.progress
                                  ELSE call.progress)
               /\ new.error_message = (IF call.error = NULL THEN old.error_message
                                       ELSE call.error)
               /\ (call.op = "heartbeat" /\ call.progress = NoProgress)
                    => new = [old EXCEPT !.updated_at = new.updated_at]]_vars

\* A heartbeat without progress on a row that holds a status, a progress
\* and an error, next to another row.
C35_Witness ==
    /\ table.last.op = "heartbeat"
    /\ table.last.progress = NoProgress
    /\ Len(table.rows) = 2
    /\ LET row == table.rows[table.last.job_id]
       IN  /\ row.status = "interrupted"
           /\ row.progress # NoProgress
           /\ row.error_message = "boom"
           /\ row.updated_at = table.clock
           /\ row.updated_at > row.started_at

\* C40: fetch_jobs(include_finished = False) returns the jobs whose status
\* is not terminal, the terminal statuses being complete, failed,
\* interrupted, cancelled, removed, stopped and stale: no failed,
\* interrupted or stale job is listed as active.
C40_FetchActive ==
    FetchJobs(table.rows, FALSE)
        = {j \in 1..Len(table.rows) : table.rows[j].status \notin TerminalStatuses}

\* The locks a thread holds, and whether it stands before an acquire.
Held(t) == {l \in LockNames : locks.holder[l] = t}
Waiting(t) == locks.todo[t] # <<>> /\ Head(locks.todo[t]).op = "acquire"

\* C37: conn_lock and _threads_lock are never held together, in either
\* order, and neither is acquired by a thread that holds it; a thread
\* that waits for a lock waits for a holder that is itself not waiting,
\* so no thread waits forever.
C37_NoDeadlock ==
    \A t \in LockTasks :
        /\ Cardinality(Held(t)) <= 1
        /\ Waiting(t) => Held(t) = {}
        /\ Waiting(t) =>
                LET holder == locks.holder[Head(locks.todo[t]).lock]
                IN  holder # NULL => (holder # t /\ ~Waiting(holder))

\* The main thread waits for conn_lock, which the watcher holds, while the
\* discovery thread holds _threads_lock.
C37_Witness ==
    /\ Waiting("main")
    /\ Head(locks.todo["main"]).lock = "conn_lock"
    /\ locks.holder["conn_lock"] = "watcher"
    /\ locks.holder["threads_lock"] = "discovery"

\* C36: a log_event of any kind for a path whose basename is .DS_Store or
\* Thumbs.db, or ends in .lock, .tmp, .swp, .swx or ~, leaves the files
\* table unchanged, while the events row is still inserted and the
\* counters of the volume are still incremented.
C36_DenySet ==
    [][(/\ last'.op = "log_event"
        /\ <<events, volumes, files, last>>' # <<events, volumes, files, last>>
        /\ IgnoredName(last'.path)
        /\ ~last'.raised)
        => LET v == last'.volume_id
               before == IF v \in DOMAIN volumes THEN volumes[v].event_count ELSE 0
           IN  /\ files' = files
               /\ events' = Append(events,
                        [timestamp |-> last'.timestamp,
                         event_type |-> last'.event_type,
                         path |-> last'.path, volume_id |-> v])
               /\ v \in DOMAIN volumes'
               /\ volumes'[v].event_count = before + 1]_vars

====
